---- MODULE Spec2Model ----
(***************************************************************************)
(* Model of the assert package (src/assert/assert.go), of the matcher      *)
(* package's ValueCaptor (src/matcher/captor.go) and of the test runner's  *)
(* ParseTestOutput and ForceVerboseFlag (src/unnamed/part_001):            *)
(*  - the container equivalence checker: checkContainerTypes, arrayValues, *)
(*    assertSameArray and HasSameElements, with the channel that           *)
(*    HasSameElements drains and a producer goroutine sending on it;       *)
(*  - the report of assertSameArray and stringify;                         *)
(*  - ArrayEqual, MapEqual, DeepEqual and NotDeepEqual;                    *)
(*  - Tracing, TracingTB, Group and G;                                     *)
(*  - MatchesRegex, DoesNotMatchRegex, EqualJson and NotEqualJson on a     *)
(*    group;                                                               *)
(*  - ForceVerboseFlag;                                                    *)
(*  - ValueCaptor and its Matches;                                         *)
(*  - ParseTestOutput, one line of its buffer at a time.                   *)
(* Each has its own specification over the one list of variables; the      *)
(* variables of the others keep their initial values.                      *)
(*                                                                         *)
(* Go indices are 0-based; sequences here are 1-based, so the index arrays *)
(* unusedGotIndicies / unusedWantIndicies hold i (1-based) or -1.          *)
(***************************************************************************)
EXTENDS Integers, Sequences, FiniteSets, TLC

\* ------------------------------------------------------------------ bounds
MaxLen == 3
MaxSends == 1
MaxCalls == 2
MaxWantStall == 1

\* ------------------------------------------------------- values and types
ElemTypes == {"int", "string", "float64"}

\* Element values of each element type.  "NaN" is the float64 not-a-number.
ElemsOf(t) ==
    CASE t = "int" -> {"1", "2"}
      [] t = "string" -> {"a"}
      [] t = "float64" -> {"NaN", "0.5"}
      [] OTHER -> {}

AllElems == UNION {ElemsOf(t) : t \in ElemTypes}

SeqsUpTo(S, n) == UNION {[1..k -> S] : k \in 0..n}

ChanDirs == {"both", "recv", "send"}

\* A type-erased input (interface{}): its dynamic type and its value.
MkValue(kind, elem, dir, isnil, vals) ==
    [kind |-> kind, elem |-> elem, dir |-> dir, isnil |-> isnil, vals |-> vals]

ArrayInputs ==
    UNION {{MkValue("array", t, "none", FALSE, s) : s \in SeqsUpTo(ElemsOf(t), MaxLen)}
             : t \in ElemTypes}

SliceInputs ==
    {MkValue("slice", t, "none", TRUE, <<>>) : t \in ElemTypes} \cup
    UNION {{MkValue("slice", t, "none", FALSE, s) : s \in SeqsUpTo(ElemsOf(t), MaxLen)}
             : t \in ElemTypes}

\* A channel value refers to the one channel of the model (chBuf, chClosed)
\* or is a nil channel.
ChanInputs ==
    {MkValue("chan", t, d, n, <<>>) : t \in ElemTypes, d \in ChanDirs, n \in BOOLEAN}

\* Scalars, a map, and the untyped nil interface.
OtherInputs ==
    { MkValue("int", "none", "none", FALSE, <<>>),
      MkValue("string", "none", "none", FALSE, <<>>),
      MkValue("map", "int", "none", FALSE, <<>>),
      MkValue("nil", "none", "none", TRUE, <<>>) }

Inputs == ArrayInputs \cup SliceInputs \cup ChanInputs \cup OtherInputs

\* reflect.TypeOf: nil for the untyped nil, else the dynamic type.
NilType == [kind |-> "nil", elem |-> "none", dir |-> "none"]

TypeOf(v) ==
    IF v.kind = "nil" THEN NilType
    ELSE [kind |-> v.kind, elem |-> v.elem, dir |-> v.dir]

\* ------------------------------------------------------------ classifier
\* Variant: the channel direction is not inspected.
checkContainerTypesAnyDir(gotType, wantType) ==
    IF gotType = NilType \/ wantType = NilType THEN "panic"
    ELSE IF gotType.kind \notin {"array", "slice", "chan"}
        THEN "can only compare arrays, slices, or channels"
    ELSE IF wantType.kind \notin {"array", "slice"}
        THEN "want type must be an array or slice"
    ELSE IF gotType.elem # wantType.elem THEN "contains types do not match"
    ELSE "ok"

\* Variant: the element types are compared before the kind of want.
checkContainerTypesElemFirst(gotType, wantType) ==
    IF gotType = NilType \/ wantType = NilType THEN "panic"
    ELSE IF gotType.kind = "chan" /\ gotType.dir = "send" THEN "non-receiving channel"
    ELSE IF gotType.kind \notin {"array", "slice", "chan"}
        THEN "can only compare arrays, slices, or channels"
    ELSE IF wantType.kind \in {"array", "slice", "chan", "map"}
            /\ gotType.elem # wantType.elem
        THEN "contains types do not match"
    ELSE IF wantType.kind \notin {"array", "slice"}
        THEN "want type must be an array or slice"
    ELSE "ok"

\* checkContainerTypes: "ok", the error it reports through Errorf, or
\* "panic" (Kind() called on a nil reflect.Type).
checkContainerTypes(gotType, wantType) ==
    IF gotType = NilType \/ wantType = NilType THEN "panic"
    ELSE IF gotType.kind = "chan" /\ gotType.dir = "send" THEN "non-receiving channel"
    ELSE IF gotType.kind \notin {"array", "slice", "chan"}
        THEN "can only compare arrays, slices, or channels"
    ELSE IF wantType.kind \notin {"array", "slice"}
        THEN "want type must be an array or slice"
    ELSE IF gotType.elem # wantType.elem THEN "contains types do not match"
    ELSE "ok"

\* ------------------------------------------------------------- extractor
\* arrayValues: nil for a nil slice, else the elements in index order.
arrayValues(a) ==
    IF a.kind # "array" /\ a.isnil THEN [isnil |-> TRUE, vals |-> <<>>]
    ELSE [isnil |-> FALSE, vals |-> a.vals]

NoValues == [isnil |-> TRUE, vals |-> <<>>]
EmptyValues == [isnil |-> FALSE, vals |-> <<>>]

\* --------------------------------------------------------------- matcher
\* reflect.DeepEqual on two elements of the same element type: value
\* equality, except that a NaN is not equal to anything, itself included.
DeepEqual(v, w) == v = w /\ v # "NaN"

Iota(n) == [i \in 1..n |-> i]

\* Variant: the inner loop stops one index short of the end of want.
RECURSIVE FirstMatchOffByOne(_, _, _, _)
FirstMatchOffByOne(v, wantValue, unusedWant, j) ==
    IF j >= Len(wantValue) THEN 0
    ELSE IF unusedWant[j] # -1 /\ DeepEqual(v, wantValue[unusedWant[j]]) THEN j
    ELSE FirstMatchOffByOne(v, wantValue, unusedWant, j + 1)

\* The inner loop: the lowest still-unused want index at or after j whose
\* element is deeply equal to v, or 0 when there is none.
RECURSIVE FirstMatch(_, _, _, _)
FirstMatch(v, wantValue, unusedWant, j) ==
    IF j > Len(wantValue) THEN 0
    ELSE IF unusedWant[j] # -1 /\ DeepEqual(v, wantValue[unusedWant[j]]) THEN j
    ELSE FirstMatch(v, wantValue, unusedWant, j + 1)

\* Variant: a matched want index is not marked as used, so that duplicates
\* cancel as a set.
RECURSIVE CancelAsSet(_, _, _, _, _)
CancelAsSet(gotValue, wantValue, unusedGot, unusedWant, gotIndex) ==
    IF gotIndex > Len(gotValue)
    THEN [got |-> unusedGot, want |-> unusedWant, pairs |-> <<>>]
    ELSE LET j == FirstMatch(gotValue[gotIndex], wantValue, Iota(Len(wantValue)), 1)
         IN IF j = 0
            THEN CancelAsSet(gotValue, wantValue, unusedGot, unusedWant, gotIndex + 1)
            ELSE LET r == CancelAsSet(gotValue, wantValue,
                                      [unusedGot EXCEPT ![gotIndex] = -1],
                                      [unusedWant EXCEPT ![j] = -1],
                                      gotIndex + 1)
                 IN [r EXCEPT !.pairs = <<<<gotIndex, j>>>> \o @]

\* The outer loop from gotIndex on: the two index arrays after cancellation,
\* and (history) the pairs <<gotIndex, wantIndex>> that the loop body marked
\* with -1, in the order it marked them.
RECURSIVE Cancel(_, _, _, _, _)
Cancel(gotValue, wantValue, unusedGot, unusedWant, gotIndex) ==
    IF gotIndex > Len(gotValue)
    THEN [got |-> unusedGot, want |-> unusedWant, pairs |-> <<>>]
    ELSE LET j == FirstMatch(gotValue[gotIndex], wantValue, unusedWant, 1)
         IN IF j = 0
            THEN Cancel(gotValue, wantValue, unusedGot, unusedWant, gotIndex + 1)
            ELSE LET r == Cancel(gotValue, wantValue,
                                 [unusedGot EXCEPT ![gotIndex] = -1],
                                 [unusedWant EXCEPT ![j] = -1],
                                 gotIndex + 1)
                 IN [r EXCEPT !.pairs = <<<<gotIndex, j>>>> \o @]

\* Variant: the elements whose index is still unused, last index first.
SurvivorsNewestFirst(values, unused) ==
    LET F[i \in 0..Len(values)] ==
            IF i = 0 THEN <<>>
            ELSE IF unused[i] # -1 THEN <<values[unused[i]]>> \o F[i - 1]
            ELSE F[i - 1]
    IN F[Len(values)]

\* The elements whose index is still unused, in index order.
Survivors(values, unused) ==
    LET F[i \in 0..Len(values)] ==
            IF i = 0 THEN <<>>
            ELSE IF unused[i] # -1 THEN Append(F[i - 1], values[unused[i]])
            ELSE F[i - 1]
    IN F[Len(values)]

\* The message of assertSameArray on a mismatch (its listings left out).
MismatchMsg == "got/wanted mismatch"

\* Variant: only the two lengths decide.
MismatchOnLength(gotLen, wantLen, extraElems, missingElems) ==
    gotLen # wantLen

\* The report condition of assertSameArray.
Mismatch(gotLen, wantLen, extraElems, missingElems) ==
    gotLen # wantLen \/ Len(extraElems) > 0 \/ Len(missingElems) > 0

\* assertSameArray: its locals extra and missing, and the message ("" when
\* the two sides are equivalent).
assertSameArray(gotValue, wantValue) ==
    LET unused == Cancel(gotValue, wantValue,
                         Iota(Len(gotValue)), Iota(Len(wantValue)), 1)
        ex == Survivors(gotValue, unused.got)
        mi == Survivors(wantValue, unused.want)
    IN [extra |-> ex, missing |-> mi,
        msg |-> IF Mismatch(Len(gotValue), Len(wantValue), ex, mi)
                THEN MismatchMsg ELSE "",
        unusedGotIndicies |-> unused.got,
        unusedWantIndicies |-> unused.want,
        pairs |-> unused.pairs]

\* -------------------------------------------------------------- formatter
\* The backquote character U+0060.  A string of this notation cannot hold
\* it, so the texts of the model write it as this stand-in.
BackquoteChar == "<U+0060>"

\* strconv.CanBackquote on the strings of the model: a string holding a
\* newline cannot be written as a raw string literal on one line.
CanBackquote(s) == s \notin {"a\nb"}

\* strconv.Quote: the double-quoted Go literal, the newline escaped.
Quote(s) == IF s = "a\nb" THEN "\"a\\nb\"" ELSE "\"" \o s \o "\""

\* strings.Join.
RECURSIVE Join(_, _)
Join(strs, sep) ==
    IF strs = <<>> THEN ""
    ELSE IF Len(strs) = 1 THEN strs[1]
    ELSE strs[1] \o sep \o Join(Tail(strs), sep)

\* The operands stringify is called with: a Go string, the reflect.Value
\* of an element, or the []interface{} of left-over elements.
GoString(s) == [dyn |-> "string", s |-> s, elems |-> <<>>]
ReflectValue(s) == [dyn |-> "reflect.Value", s |-> s, elems |-> <<>>]
InterfaceSlice(elems) == [dyn |-> "[]interface {}", s |-> "", elems |-> elems]

\* fmt.Sprintf("%+v", i): a reflect.Value prints as the value it holds, a
\* string as its bytes, a slice as its elements between brackets separated
\* by spaces.  The elements of the model are named by what %v prints.
SprintfPlusV(i) ==
    IF i.dyn = "[]interface {}"
    THEN "[" \o Join(i.elems, " ") \o "]"
    ELSE i.s

\* Variant: stringify looks through a reflect.Value at the string it holds.
stringifyThroughValue(i, elemType) ==
    IF i.dyn \in {"string", "reflect.Value"} /\ elemType = "string"
    THEN IF CanBackquote(i.s) THEN BackquoteChar \o i.s \o BackquoteChar
         ELSE Quote(i.s)
    ELSE SprintfPlusV(i)

\* stringify: only an operand whose dynamic type is string (or *string) is
\* quoted; every other operand takes the default branch.  elemType is the
\* static type of what a reflect.Value holds, which the type switch on the
\* operand does not look at.
stringify(i, elemType) ==
    IF i.dyn = "string"
    THEN IF CanBackquote(i.s) THEN BackquoteChar \o i.s \o BackquoteChar
         ELSE Quote(i.s)
    ELSE SprintfPlusV(i)

\* The listing of one side: "(type) value" for each element.
ValueStr(values, elemType) ==
    [i \in DOMAIN values |->
        "(" \o elemType \o ") " \o stringify(ReflectValue(values[i]), elemType)]

\* Variant: the missing clause is written whenever there is a report.
missingStrAlways(missingElems, elemType) ==
    "; missing elements: " \o stringify(InterfaceSlice(missingElems), elemType)

\* The clause for the wanted elements that found no partner.
missingStr(missingElems, elemType) ==
    IF Len(missingElems) > 0
    THEN "; missing elements: " \o stringify(InterfaceSlice(missingElems), elemType)
    ELSE ""

\* The clause for the got elements that found no partner.
extraStr(extraElems, elemType) ==
    IF Len(extraElems) > 0
    THEN "; extra elements: " \o stringify(InterfaceSlice(extraElems), elemType)
    ELSE ""

\* What assertSameArray returns when the two sides are equivalent.
NoReport ==
    [text |-> "", gotValueStr |-> <<>>, wantValueStr |-> <<>>,
     gotLen |-> 0, wantLen |-> 0, missingStr |-> "", extraStr |-> ""]

\* The string assertSameArray returns, with the parts it is put together
\* from; elemType is the name of the elements' type (gv.Type().Name()).
assertSameArrayReport(gotValue, wantValue, elemType) ==
    LET r == assertSameArray(gotValue, wantValue)
        g == ValueStr(gotValue, elemType)
        w == ValueStr(wantValue, elemType)
        ms == missingStr(r.missing, elemType)
        es == extraStr(r.extra, elemType)
    IN IF Mismatch(Len(gotValue), Len(wantValue), r.extra, r.missing)
       THEN [text |-> "got [" \o Join(g, ", ") \o "] (len "
                          \o ToString(Len(gotValue)) \o "), wanted ["
                          \o Join(w, ", ") \o "] (len "
                          \o ToString(Len(wantValue)) \o ")" \o ms \o es,
             gotValueStr |-> g, wantValueStr |-> w,
             gotLen |-> Len(gotValue), wantLen |-> Len(wantValue),
             missingStr |-> ms, extraStr |-> es]
       ELSE NoReport

\* ------------------------------------- ArrayEqual, MapEqual and DeepEqual
\* Longest array or slice handed to the positional comparisons.
MaxEqLen == 2

\* Keys of the maps of each key type.
MapKeysOf(keyType) == IF keyType = "string" THEN {"a", "b"} ELSE {"1", "2"}

\* A map input: map[keyType]elem, nil or holding the pairs of m.
MkMap(keyType, elem, isnil, m) ==
    [kind |-> "map", key |-> keyType, elem |-> elem, dir |-> "none",
     isnil |-> isnil, vals |-> m]

MapInputs ==
    UNION {{MkMap(kt, "int", TRUE, <<>>)} \cup
           {MkMap(kt, "int", FALSE, m) :
               m \in UNION {[D -> ElemsOf("int")] : D \in SUBSET MapKeysOf(kt)}}
             : kt \in {"string", "int"}}

\* Scalars: an int or a string.
ScalarInputs ==
    {MkValue(t, "none", "none", FALSE, <<v>>) : t \in {"int"}, v \in ElemsOf("int")}
    \cup {MkValue("string", "none", "none", FALSE, <<"a">>)}

\* The inputs of the equality assertions: arrays, slices, maps, scalars
\* and the untyped nil.
EqInputs ==
    {v \in ArrayInputs \cup SliceInputs : Len(v.vals) <= MaxEqLen}
    \cup MapInputs \cup ScalarInputs
    \cup {MkValue("nil", "none", "none", TRUE, <<>>)}

\* The dynamic type as reflect.DeepEqual compares it: an array type
\* includes its length, a map type its key type.
GoType(v) ==
    <<v.kind,
      IF v.kind = "map" THEN v.key ELSE "",
      v.elem,
      IF v.kind = "array" THEN ToString(Len(v.vals)) ELSE "">>

\* reflect.DeepEqual on two elements taken out as interface{} values: the
\* types must be identical.
IfaceDeepEqual(v, vType, w, wType) == vType = wType /\ DeepEqual(v, w)

\* reflect.DeepEqual(a, b).  same: a and b are one and the same slice or
\* map, which DeepEqual finds equal without looking at the elements.
ReflectDeepEqual(a, b, same) ==
    IF a.kind = "nil" \/ b.kind = "nil" THEN a.kind = b.kind
    ELSE IF GoType(a) # GoType(b) THEN FALSE
    ELSE IF a.kind = "array"
    THEN \A i \in DOMAIN a.vals : DeepEqual(a.vals[i], b.vals[i])
    ELSE IF a.kind = "slice"
    THEN /\ a.isnil = b.isnil
         /\ Len(a.vals) = Len(b.vals)
         /\ same \/ \A i \in DOMAIN a.vals : DeepEqual(a.vals[i], b.vals[i])
    ELSE IF a.kind = "map"
    THEN /\ a.isnil = b.isnil
         /\ Cardinality(DOMAIN a.vals) = Cardinality(DOMAIN b.vals)
         /\ same \/ \A k \in DOMAIN a.vals :
                       /\ k \in DOMAIN b.vals
                       /\ DeepEqual(a.vals[k], b.vals[k])
    ELSE DeepEqual(a.vals[1], b.vals[1])

isArrayLike(i) == i.kind \in {"array", "slice"}

isMap(i) == i.kind = "map"

\* What an assertion did: its return value ("panic" when it did not
\* return) and the messages it passed to Error or Errorf.
Pass == [ret |-> "true", errs |-> <<>>]
Fail(head, lines) == [ret |-> "false", errs |-> <<[head |-> head, lines |-> lines]>>]
Panic == [ret |-> "panic", errs |-> <<>>]

\* One entry of the errors list of ArrayEqual or MapEqual, and no entry.
Line(tag, at) == [tag |-> tag, at |-> at]
NoLine == Line("", "")

DropNoLine(lines) == SelectSeq(lines, LAMBDA l : l # NoLine)

\* The errors list that the index loop of ArrayEqual builds (indices are
\* written 0-based, as the code does).
ArrayErrors(gotVals, gotElem, wantVals, wantElem) ==
    LET gotLen == Len(gotVals)
        wantLen == Len(wantVals)
        n == IF gotLen >= wantLen THEN gotLen ELSE wantLen
        err(i) ==
            IF i <= gotLen /\ i <= wantLen
            THEN IF ~IfaceDeepEqual(gotVals[i], gotElem, wantVals[i], wantElem)
                 THEN Line("index", ToString(i - 1)) ELSE NoLine
            ELSE IF i <= gotLen
            THEN Line("index: got extra value", ToString(i - 1))
            ELSE Line("index: missing wanted value", ToString(i - 1))
    IN DropNoLine([i \in 1..n |-> err(i)])

\* Variant: a nil slice is taken for an empty one.
ArrayEqualNilAsEmpty(g, w) ==
    IF ~isArrayLike(g) \/ ~isArrayLike(w) THEN Fail("got/want", <<>>)
    ELSE LET errors == ArrayErrors(g.vals, g.elem, w.vals, w.elem)
         IN IF Len(errors) > 0 THEN Fail("arrays not equal:", errors) ELSE Pass

\* ArrayEqual(t, got, want).
ArrayEqual(g, w) ==
    IF ~isArrayLike(g) \/ ~isArrayLike(w) THEN Fail("got/want", <<>>)
    ELSE LET gotValues == arrayValues(g)
             wantValues == arrayValues(w)
             errors == ArrayErrors(gotValues.vals, g.elem, wantValues.vals, w.elem)
         IN IF gotValues.isnil /\ ~wantValues.isnil THEN Fail("got nil", <<>>)
            ELSE IF wantValues.isnil /\ ~gotValues.isnil THEN Fail("want nil", <<>>)
            ELSE IF Len(errors) > 0 THEN Fail("arrays not equal:", errors)
            ELSE Pass

\* The orders in which MapKeys may list the keys of a map.
KeyOrders(m) ==
    {o \in [1..Cardinality(DOMAIN m) -> DOMAIN m] :
        \A i, j \in DOMAIN o : i # j => o[i] # o[j]}

\* The errors list of MapEqual: the loop over wantKeys, then the loop over
\* gotKeys.
MapErrors(g, w, wantKeys, gotKeys) ==
    LET wantErr(k) ==
            IF k \in DOMAIN g.vals
            THEN IF ~IfaceDeepEqual(g.vals[k], g.elem, w.vals[k], w.elem)
                 THEN Line("key", k) ELSE NoLine
            ELSE Line("missing key", k)
        gotErr(k) ==
            IF k \notin DOMAIN w.vals THEN Line("extra key", k) ELSE NoLine
    IN DropNoLine([i \in DOMAIN wantKeys |-> wantErr(wantKeys[i])])
       \o DropNoLine([i \in DOMAIN gotKeys |-> gotErr(gotKeys[i])])

\* MapEqual(t, got, want), MapKeys having listed the keys as wantKeys and
\* gotKeys.  MapIndex panics on a key whose type is not the map's key type.
MapEqual(g, w, wantKeys, gotKeys) ==
    IF ~isMap(g) \/ ~isMap(w) THEN Fail("got/want", <<>>)
    ELSE IF g.isnil /\ ~w.isnil THEN Fail("got nil", <<>>)
    ELSE IF w.isnil /\ ~g.isnil THEN Fail("want nil", <<>>)
    ELSE IF g.key # w.key /\ (Len(wantKeys) > 0 \/ Len(gotKeys) > 0) THEN Panic
    ELSE LET errors == MapErrors(g, w, wantKeys, gotKeys)
         IN IF Len(errors) > 0 THEN Fail("maps not equal:", errors) ELSE Pass

\* The key orders of a call on any pair of inputs.
KeyOrdersOf(v) == IF isMap(v) THEN KeyOrders(v.vals) ELSE {<<>>}

\* DeepEqual(t, got, want) of the assert package.
AssertDeepEqual(g, w, same, wantKeys, gotKeys) ==
    IF isArrayLike(g) /\ isArrayLike(w) THEN ArrayEqual(g, w)
    ELSE IF isMap(g) /\ isMap(w) THEN MapEqual(g, w, wantKeys, gotKeys)
    ELSE IF ~ReflectDeepEqual(g, w, same) THEN Fail("got/want", <<>>)
    ELSE Pass

\* NotDeepEqual(t, got, want).
NotDeepEqual(g, w, same) ==
    IF ReflectDeepEqual(g, w, same) THEN Fail("got/want !=", <<>>)
    ELSE Pass

\* The equality assertions of the model.
EqFns == {"ArrayEqual", "MapEqual", "DeepEqual", "NotDeepEqual"}

\* ---------------------------------------------------- Tracing and groups
\* Most objects (the testing.TB under test, TracingTBs and groups) one test
\* creates.
MaxObjects == 4

\* Texts are sequences of characters.  The frames that trace.Format(true)
\* lists are one piece; its text ends with a newline.
StackTrace == "<stack trace>"

\* stackTrace(): a newline, then trace.Format(true).
stackTrace == <<"\n", StackTrace, "\n">>

\* Group names: the empty name, a plain name, and a name ending in a
\* percent sign.
GroupNames == {<<>>, <<"a">>, <<"a", "%">>}

\* The formats (with their operands) of the failure messages: plain text,
\* or text with one %s.
Bodies ==
    {[format |-> <<"x">>, args |-> <<>>],
     [format |-> <<"x", "%", "s">>, args |-> << <<"v">> >>]}

TBMethods == {"Errorf", "Error", "Fatalf", "Fatal"}

IsFormatted(method) == method \in {"Errorf", "Fatalf"}

\* The objects of the heap; a reference is an index of the heap.  path is
\* history: the names given to the enclosing groups and to the group.
TestingT == [type |-> "T", tb |-> 0, name |-> <<>>, path |-> <<>>]
NewTracingTB(t) == [type |-> "TracingTB", tb |-> t, name |-> <<>>, path |-> <<>>]
NewG(t, name, path) == [type |-> "G", tb |-> t, name |-> name, path |-> path]

\* Variant: only a *TracingTB is returned as it is; a *G is wrapped.
TracingWrapsG(h, t) ==
    IF h[t].type = "TracingTB"
    THEN [ref |-> t, heap |-> h]
    ELSE [ref |-> Len(h) + 1, heap |-> Append(h, NewTracingTB(t))]

\* Tracing(t): t itself when it is a *G or a *TracingTB, else a new
\* TracingTB that embeds t.
Tracing(h, t) ==
    IF h[t].type \in {"G", "TracingTB"}
    THEN [ref |-> t, heap |-> h]
    ELSE [ref |-> Len(h) + 1, heap |-> Append(h, NewTracingTB(t))]

\* The errors of the model: what regexp.MatchString returns for the
\* pattern "(" and what json.Marshal returns for a channel.  An error is
\* written as what %#v prints for it, in one piece.
RegexError == <<"&syntax.Error{Code:\"missing closing )\", Expr:\"(\"}">>
JsonError == <<"&json.UnsupportedTypeError{Type:(*reflect.rtype)(0x<address>)}">>

\* err.Error().
ErrorText(err) ==
    IF err = RegexError
    THEN <<"error parsing regexp: missing closing ): ", BackquoteChar, "(", BackquoteChar>>
    ELSE <<"json: unsupported type: chan int">>

\* What %q prints for a string: the double-quoted Go literal, with the
\* newline, the double quote and the backslash escaped (the newlines and
\* tabs inside the stack trace too).
fmtQ(text) ==
    <<"\"">>
    \o [i \in DOMAIN text |->
           CASE text[i] = "\n" -> "\\n"
             [] text[i] = "\"" -> "\\\""
             [] text[i] = "\\" -> "\\\\"
             [] text[i] = StackTrace -> "<stack trace, escaped>"
             [] OTHER -> text[i]]
    \o <<"\"">>

\* What the verbs s, q and v print for an operand, a string or an error:
\* %s and %v the string or err.Error(), %q the same quoted, %#v the
\* Go syntax of the operand.
printArg(operand, verb, sharpV) ==
    LET isError == operand \in {RegexError, JsonError}
        str == IF isError THEN ErrorText(operand) ELSE operand
    IN IF verb = "v" /\ sharpV
       THEN IF isError THEN operand ELSE fmtQ(operand)
       ELSE IF verb = "q" THEN fmtQ(str)
       ELSE str

\* What any other verb prints.  For a string: the verb, the type and the
\* string.  An error of the model is a pointer to a struct, which is
\* printed field by field, so the bad verb is reported for each field with
\* the type and the value of the field: Code (a syntax.ErrorCode) and Expr
\* (a string) of the *syntax.Error, Type (a *reflect.rtype, itself printed
\* as a pointer to a struct) of the *json.UnsupportedTypeError.
badVerb(operand, verb) ==
    IF operand = RegexError
    THEN <<"&", "{", "%!", verb, "(syntax.ErrorCode=", "missing closing )", ")",
           " ", "%!", verb, "(string=", "(", ")", "}">>
    ELSE IF operand = JsonError
    THEN <<"&", "{", "%!", verb, "(*reflect.rtype=",
           "&{<fields of reflect.rtype>}", ")", "}">>
    ELSE <<"%!", verb, "(string=">> \o operand \o <<")">>

\* fmt.Sprintf on a format of the model: after a percent sign the flags
\* are skipped and the next character is the verb; %s, %q and %v take the
\* next operand, %% is a percent sign, any other verb is a bad verb, and a
\* verb with no operand left is reported as missing.
RECURSIVE Sprintf(_, _)
Sprintf(format, operands) ==
    IF format = <<>>
    THEN IF operands = <<>> THEN <<>>
         ELSE <<"%!(EXTRA string=">> \o Head(operands) \o <<")">>
    ELSE IF Head(format) # "%"
    THEN <<Head(format)>> \o Sprintf(Tail(format), operands)
    ELSE LET flags == {"#", "0", "+", "-", " "}
             afterFlags == CHOOSE k \in 2..(Len(format) + 1) :
                              /\ \A i \in 2..(k - 1) : format[i] \in flags
                              /\ k = Len(format) + 1 \/ format[k] \notin flags
             sharp == \E i \in 2..(afterFlags - 1) : format[i] = "#"
             rest == SubSeq(format, afterFlags + 1, Len(format))
         IN IF afterFlags > Len(format) THEN <<"%!(NOVERB)">>
            ELSE IF format[afterFlags] = "%" THEN <<"%">> \o Sprintf(rest, operands)
            ELSE IF operands = <<>>
            THEN <<"%!", format[afterFlags], "(MISSING)">> \o Sprintf(rest, operands)
            ELSE IF format[afterFlags] \in {"s", "q", "v"}
            THEN printArg(Head(operands), format[afterFlags], sharp)
                     \o Sprintf(rest, Tail(operands))
            ELSE badVerb(Head(operands), format[afterFlags])
                     \o Sprintf(rest, Tail(operands))

\* fmt.Sprintln: the operands separated by spaces, then a newline.
RECURSIVE Sprintln(_)
Sprintln(operands) ==
    IF operands = <<>> THEN <<"\n">>
    ELSE IF Len(operands) = 1 THEN operands[1] \o <<"\n">>
    ELSE operands[1] \o <<" ">> \o Sprintln(Tail(operands))

\* strings.TrimRight(s, cutset): s without the characters of cutset at
\* its end.
RECURSIVE TrimRight(_, _)
TrimRight(s, cutset) ==
    IF s # <<>> /\ s[Len(s)] \in cutset
    THEN TrimRight(SubSeq(s, 1, Len(s) - 1), cutset)
    ELSE s

\* The calls that reach the testing.TB under test when method is called on
\* object t with a format (Errorf, Fatalf) and operands: a G puts its name
\* in front when it has one, a TracingTB appends the stack trace, and the
\* testing.TB records the message: Sprintf of the format for Errorf and
\* Fatalf, Sprintln of the operands without its newlines at the end for
\* Error and Fatal.
RECURSIVE Deliver(_, _, _, _, _)
Deliver(h, t, method, format, operands) ==
    IF h[t].type = "T"
    THEN << [method |-> method,
             msg |-> IF IsFormatted(method) THEN Sprintf(format, operands)
                     ELSE TrimRight(Sprintln(operands), {"\n"})] >>
    ELSE IF h[t].type = "TracingTB"
    THEN IF IsFormatted(method)
         THEN Deliver(h, h[t].tb, method,
                      format \o <<" ", "i", "n", " ", "%", "s">>,
                      Append(operands, stackTrace))
         ELSE Deliver(h, h[t].tb, method, format,
                      operands \o << <<"i", "n">>, stackTrace >>)
    ELSE IF Len(h[t].name) > 0
    THEN IF IsFormatted(method)
         THEN Deliver(h, h[t].tb, method,
                      h[t].name \o <<":", " ">> \o format, operands)
         ELSE Deliver(h, h[t].tb, method, format,
                      << h[t].name \o <<":">> >> \o operands)
    ELSE Deliver(h, h[t].tb, method, format, operands)

\* Results of an assertion: what it returns and the calls it made on the
\* testing.TB under test.  That testing.TB is the mockT of the package's
\* tests, whose Fatalf and Fatal record the call and return, so the
\* assertion goes on after it (a *testing.T ends the goroutine there and
\* is not part of this model).

\* regexp.MatchString on the patterns of the model: "(" does not compile,
\* a pattern of plain characters matches the strings that hold it.
MatchString(pattern, str) ==
    [err |-> pattern = <<"(">>,
     matched |-> /\ pattern # <<"(">>
                 /\ \E i \in 1..(Len(str) - Len(pattern) + 1) :
                       SubSeq(str, i, i + Len(pattern) - 1) = pattern]

\* matchRegex(t, got, wantRegex).
matchRegex(h, t, gotStr, wantRegex) ==
    LET r == MatchString(wantRegex, gotStr)
    IN [ret |-> r.matched,
        calls |-> IF r.err
                  THEN Deliver(h, t, "Fatalf",
                               <<"invalid regular expression ", BackquoteChar,
                                 "%", "s", BackquoteChar, ":", " ", "%", "#", "v">>,
                               <<wantRegex, RegexError>>)
                  ELSE <<>>]

\* MatchesRegex(t, got, wantRegex).
MatchesRegex(h, t, gotStr, wantRegex) ==
    LET tr == Tracing(h, t).ref
        m == matchRegex(h, tr, gotStr, wantRegex)
    IN IF ~m.ret
       THEN [ret |-> FALSE,
             calls |-> m.calls
                       \o Deliver(h, tr, "Errorf",
                                  <<"got ", "%", "q", ", did not match ",
                                    BackquoteChar, "%", "s", BackquoteChar>>,
                                  <<gotStr, wantRegex>>)]
       ELSE [ret |-> TRUE, calls |-> m.calls]

\* DoesNotMatchRegex(t, got, wantRegex).
DoesNotMatchRegex(h, t, gotStr, wantRegex) ==
    LET tr == Tracing(h, t).ref
        m == matchRegex(h, tr, gotStr, wantRegex)
    IN IF m.ret
       THEN [ret |-> FALSE,
             calls |-> m.calls
                       \o Deliver(h, tr, "Errorf",
                                  <<"got ", "%", "q", ", matched ",
                                    BackquoteChar, "%", "s", BackquoteChar>>,
                                  <<gotStr, wantRegex>>)]
       ELSE [ret |-> TRUE, calls |-> m.calls]

\* The patterns handed to the two assertions on the string "x": one that
\* matches, one that does not, one that does not compile.
WantRegexes == {<<"x">>, <<"y">>, <<"(">>}

\* The pairs of values handed to EqualJson and NotEqualJson, of two ints
\* and a channel: equal, different, one that cannot be encoded, and none
\* that can.  json.Marshal gives the decimal of an int and an error for a
\* channel, and the string of its nil result is empty.
JsonInputs ==
    {<<"1", "1">>, <<"1", "2">>, <<"make(chan int)", "1">>,
     <<"make(chan int)", "make(chan int)">>}
Marshal(v) ==
    [json |-> IF v = "make(chan int)" THEN "" ELSE v,
     err |-> v = "make(chan int)"]

\* encodeJson(t, got, want).
encodeJson(h, t, gotV, wantV) ==
    LET couldNot(v) ==
            IF Marshal(v).err
            THEN Deliver(h, t, "Fatalf",
                         <<"could not marshal json: ", "%", "#", "v">>,
                         <<JsonError>>)
            ELSE <<>>
    IN [gotJson |-> Marshal(gotV).json,
        wantJson |-> Marshal(wantV).json,
        calls |-> couldNot(gotV) \o couldNot(wantV)]

\* mkErrorMsgWithExp(got, want, expectation) on two strings.
mkErrorMsgWithExp(gotStr, wantStr, expectation) ==
    "got (string) " \o stringify(GoString(gotStr), "string") \o ", "
        \o expectation \o " (string) " \o stringify(GoString(wantStr), "string")

\* Equal(t, got, want) and NotEqual(t, got, want) on two strings.
Equal(h, t, gotStr, wantStr) ==
    IF gotStr # wantStr
    THEN [ret |-> FALSE,
          calls |-> Deliver(h, Tracing(h, t).ref, "Error", <<>>,
                            << <<mkErrorMsgWithExp(gotStr, wantStr, "want")>> >>)]
    ELSE [ret |-> TRUE, calls |-> <<>>]

NotEqual(h, t, gotStr, wantStr) ==
    IF gotStr = wantStr
    THEN [ret |-> FALSE,
          calls |-> Deliver(h, Tracing(h, t).ref, "Error", <<>>,
                            << <<mkErrorMsgWithExp(gotStr, wantStr, "want !=")>> >>)]
    ELSE [ret |-> TRUE, calls |-> <<>>]

\* EqualJson(t, got, want) and NotEqualJson(t, got, want).
EqualJson(h, t, gotV, wantV) ==
    LET tr == Tracing(h, t).ref
        e == encodeJson(h, tr, gotV, wantV)
        r == Equal(h, tr, e.gotJson, e.wantJson)
    IN [ret |-> r.ret, calls |-> e.calls \o r.calls]

NotEqualJson(h, t, gotV, wantV) ==
    LET tr == Tracing(h, t).ref
        e == encodeJson(h, tr, gotV, wantV)
        r == NotEqual(h, tr, e.gotJson, e.wantJson)
    IN [ret |-> r.ret, calls |-> e.calls \o r.calls]

\* No Tracing call and no assertion yet.
NoTracing == [arg |-> 0, res |-> 0]
NoAssert == [on |-> 0, method |-> "", failed |-> FALSE]

\* ------------------------------------------------------ ForceVerboseFlag
\* Longest argument list handed to ForceVerboseFlag.
MaxArgs == 4

VerboseTrue == "-test.v=true"
VerboseFalse == "-test.v=false"

\* The command-line arguments of the model.
FlagArgs == {VerboseTrue, VerboseFalse, "-x"}

\* The first index of a that holds -test.v=true or -test.v=false, or 0:
\* where the loop of ForceVerboseFlag returns or breaks.
FirstVerbose(a) ==
    IF \E i \in DOMAIN a : a[i] \in {VerboseTrue, VerboseFalse}
    THEN CHOOSE i \in DOMAIN a :
            /\ a[i] \in {VerboseTrue, VerboseFalse}
            /\ \A j \in 1..(i - 1) : a[j] \notin {VerboseTrue, VerboseFalse}
    ELSE 0

\* Variant: -test.v=true is appended also when the list already holds it.
ForceVerboseFlagAlwaysAppends(a) ==
    LET i == FirstVerbose(a)
    IN IF i # 0 /\ a[i] = VerboseFalse
       THEN LET cut == SubSeq(a, 1, i - 1) \o SubSeq(a, i + 1, Len(a))
            IN [out |-> Append(cut, VerboseTrue), args |-> Append(cut, VerboseTrue)]
       ELSE [out |-> Append(a, VerboseTrue), args |-> a]

\* ForceVerboseFlag(args): out is the slice it returns, args what the
\* caller's slice holds afterwards.  append(args[0:i], args[i+1:]...)
\* moves the elements after i one place down inside the caller's array,
\* and the final append then writes -test.v=true into its last place.
ForceVerboseFlag(a) ==
    LET i == FirstVerbose(a)
    IN IF i # 0 /\ a[i] = VerboseTrue THEN [out |-> a, args |-> a]
       ELSE IF i # 0
       THEN LET cut == SubSeq(a, 1, i - 1) \o SubSeq(a, i + 1, Len(a))
            IN [out |-> Append(cut, VerboseTrue), args |-> Append(cut, VerboseTrue)]
       ELSE [out |-> Append(a, VerboseTrue), args |-> a]

\* ------------------------------------------------------------ ValueCaptor
\* Most Matches calls made on the captor.
MaxMatches == 3

\* The nil interface value, and the arguments handed to Matches.
NilValue == [dyn |-> "nil", s |-> ""]
CaptorValues ==
    {NilValue, [dyn |-> "int", s |-> "1"], [dyn |-> "string", s |-> "matched!"],
     [dyn |-> "string", s |-> "nope"]}

\* The nil Matcher, and the inner matchers: PredicateMatchers whose Test
\* accepts the string "matched!", any string, anything, or nothing.
NilMatcher == [name |-> "nil"]
PredicateMatchers ==
    {[name |-> n] : n \in {"string value tester", "any string", "anything", "nothing"}}

\* PredicateMatcher.Matches(x): what its Test function returns on x.
PredicateMatches(m, x) ==
    CASE m.name = "string value tester" -> x.dyn = "string" /\ x.s = "matched!"
      [] m.name = "any string" -> x.dyn = "string"
      [] m.name = "anything" -> TRUE
      [] OTHER -> FALSE

\* The types handed to CaptureType, and the matcher IsOfType{t}.
CaptorTypes == {"int", "string"}
IsOfType(t) == [name |-> "IsOfType", t |-> t]

\* IsOfType{t}.Matches(x): the dynamic type of x is t (no type for nil).
IsOfTypeMatches(m, x) == x.dyn = m.t

\* m.Matches(x) on the Matcher m that a captor holds.
MatcherMatches(m, x) ==
    IF m.name = "IsOfType" THEN IsOfTypeMatches(m, x) ELSE PredicateMatches(m, x)

\* CaptureAny(), CaptureMatching(m) and CaptureType(t): the new captor.
CaptureAny == [mustMatch |-> NilMatcher, V |-> NilValue]
CaptureMatching(m) == [mustMatch |-> m, V |-> NilValue]
CaptureType(t) == [mustMatch |-> IsOfType(t), V |-> NilValue]

\* Variant: the argument is stored before the inner matcher is asked.
MatchesStoresFirst(vc, x) ==
    IF vc.mustMatch # NilMatcher /\ ~MatcherMatches(vc.mustMatch, x)
    THEN [ret |-> FALSE, vc |-> [vc EXCEPT !.V = x]]
    ELSE [ret |-> TRUE, vc |-> [vc EXCEPT !.V = x]]

\* vc.Matches(x): what it returns and the captor afterwards.
Matches(vc, x) ==
    IF vc.mustMatch # NilMatcher /\ ~MatcherMatches(vc.mustMatch, x)
    THEN [ret |-> FALSE, vc |-> vc]
    ELSE [ret |-> TRUE, vc |-> [vc EXCEPT !.V = x]]

\* No captor has been made.
NoCaptor == [mustMatch |-> [name |-> "none"], V |-> NilValue]

\* -------------------------------------------------------- ParseTestOutput
\* Texts are sequences of one-character strings.
\* Most newline-terminated lines in the buffer handed to ParseTestOutput.
MaxLines == 4

\* unicode.IsSpace on the characters of the model.
IsSpace(c) == c \in {" ", "\t", "\r", "\n"}

\* strings.TrimRightFunc(s, unicode.IsSpace).
TrimRightSpace(s) == TrimRight(s, {c \in {s[i] : i \in DOMAIN s} : IsSpace(c)})

\* strings.TrimSpace: s without the white space at its two ends.
RECURSIVE TrimSpace(_)
TrimSpace(s) ==
    IF s # <<>> /\ IsSpace(s[1]) THEN TrimSpace(Tail(s)) ELSE TrimRightSpace(s)

\* strings.HasPrefix.
HasPrefix(s, prefix) ==
    Len(s) >= Len(prefix) /\ SubSeq(s, 1, Len(prefix)) = prefix

HasSuffix(s, suffix) ==
    Len(s) >= Len(suffix) /\ SubSeq(s, Len(s) - Len(suffix) + 1, Len(s)) = suffix

RunPrefix == <<"=", "=", "=", " ", "R", "U", "N", " ">>
TabPrefix == <<"\t">>
PassWord == <<"P", "A", "S", "S">>
FailWord == <<"F", "A", "I", "L">>
SkipWord == <<"S", "K", "I", "P">>
SecondsUnit == <<" ", "s", "e", "c", "o", "n", "d", "s">>

\* \d+
IsDigits(s) ==
    /\ s # <<>>
    /\ \A i \in DOMAIN s : s[i] \in {"0", "1", "2", "3", "4", "5", "6", "7", "8", "9"}

\* \d+\.\d+
IsDecimal(s) ==
    \E k \in DOMAIN s :
       /\ s[k] = "."
       /\ IsDigits(SubSeq(s, 1, k - 1))
       /\ IsDigits(SubSeq(s, k + 1, Len(s)))

\* The number in s when s is ' \((\d+\.\d+)(?: seconds|s)\)' to its end,
\* else <<>>.
DurationIn(s) ==
    IF Len(s) >= 4 /\ s[1] = " " /\ s[2] = "(" /\ s[Len(s)] = ")"
    THEN LET inner == SubSeq(s, 3, Len(s) - 1)
             num == IF HasSuffix(inner, SecondsUnit)
                    THEN SubSeq(inner, 1, Len(inner) - Len(SecondsUnit))
                    ELSE IF HasSuffix(inner, <<"s">>)
                    THEN SubSeq(inner, 1, Len(inner) - 1)
                    ELSE <<>>
         IN IF IsDecimal(num) THEN num ELSE <<>>
    ELSE <<>>

\* resultRegex.FindStringSubmatch(line): <<line, m[1], m[2], m[3]>> on
\* '^--- (PASS|FAIL|SKIP): (.+) \((\d+\.\d+)(?: seconds|s)\)$', else <<>>.
resultRegex(line) ==
    IF /\ HasPrefix(line, <<"-", "-", "-", " ">>)
       /\ Len(line) >= 10
       /\ SubSeq(line, 5, 8) \in {PassWord, FailWord, SkipWord}
       /\ SubSeq(line, 9, 10) = <<":", " ">>
       /\ \E k \in 12..Len(line) : DurationIn(SubSeq(line, k, Len(line))) # <<>>
    THEN LET k == CHOOSE k \in 12..Len(line) :
                      DurationIn(SubSeq(line, k, Len(line))) # <<>>
         IN <<line, SubSeq(line, 5, 8), SubSeq(line, 11, k - 1),
              DurationIn(SubSeq(line, k, Len(line)))>>
    ELSE <<>>

\* summaryRegex.FindStringSubmatch(line) on '^(?:PASS|FAIL)$'.
summaryRegex(line) ==
    IF line \in {PassWord, FailWord} THEN <<line>> ELSE <<>>

\* No test is open (t == nil).
NoTest == [Name |-> <<>>, Result |-> "nil", Duration |-> <<>>,
           Output |-> <<>>, Failure |-> <<>>]

\* new(results.Test) with its Name set.
NewTest(name) == [Name |-> name, Result |-> "", Duration |-> <<>>,
                  Output |-> <<>>, Failure |-> <<>>]

\* testPkg as ParseTestOutput first sets it; notice says whether the 'Did
\* not find package result' text has been appended to Output.
NewTestPackage == [Result |-> "Skipped", Tests |-> <<>>, notice |-> FALSE]

SinglePackageErr == "expected only a single package"

\* bytes.Buffer.Write(lineBytes) on a buffer kept as the lines written to
\* it; the empty rest of the output adds nothing.
Write(buf, lineBytes) ==
    IF lineBytes = <<>> THEN buf ELSE Append(buf, lineBytes)

\* Variant: a second summary line replaces the package result.
loopBodyLastSummaryWins(st, lineBytes) ==
    LET line == TrimRightSpace(lineBytes)
        m == resultRegex(line)
    IN IF st.t = NoTest
       THEN IF HasPrefix(line, RunPrefix)
            THEN [st EXCEPT !.t = NewTest(TrimSpace(SubSeq(line, 9, Len(line))))]
            ELSE IF Len(summaryRegex(line)) = 1
            THEN [st EXCEPT !.testPkg.Result =
                                IF line = PassWord THEN "Passed" ELSE "Failed"]
            ELSE IF Len(st.testPkg.Tests) > 0 /\ HasPrefix(line, TabPrefix)
            THEN [st EXCEPT
                    !.testPkg.Tests[Len(st.testPkg.Tests)].Failure =
                        Write(@, lineBytes)]
            ELSE st
       ELSE IF Len(m) = 4
            THEN [st EXCEPT
                    !.testPkg.Tests =
                        Append(@, [st.t EXCEPT
                                     !.Result = CASE m[2] = PassWord -> "Passed"
                                                  [] m[2] = SkipWord -> "Skipped"
                                                  [] OTHER -> "Failed",
                                     !.Duration = m[4]]),
                    !.t = NoTest]
            ELSE [st EXCEPT !.t.Output = Write(@, lineBytes)]

\* The body of the loop on one line as read (lineBytes, without its
\* newline): st holds t, testPkg and the error returned, if any.
loopBody(st, lineBytes) ==
    LET line == TrimRightSpace(lineBytes)
        m == resultRegex(line)
    IN IF st.t = NoTest
       THEN IF HasPrefix(line, RunPrefix)
            THEN [st EXCEPT !.t = NewTest(TrimSpace(SubSeq(line, 9, Len(line))))]
            ELSE IF Len(summaryRegex(line)) = 1
            THEN IF st.testPkg.Result # "Skipped"
                 THEN [st EXCEPT !.err = SinglePackageErr]
                 ELSE [st EXCEPT !.testPkg.Result =
                                     IF line = PassWord THEN "Passed" ELSE "Failed"]
            ELSE IF Len(st.testPkg.Tests) > 0 /\ HasPrefix(line, TabPrefix)
            THEN [st EXCEPT
                    !.testPkg.Tests[Len(st.testPkg.Tests)].Failure =
                        Write(@, lineBytes)]
            ELSE st
       ELSE IF Len(m) = 4
            THEN [st EXCEPT
                    !.testPkg.Tests =
                        Append(@, [st.t EXCEPT
                                     !.Result = CASE m[2] = PassWord -> "Passed"
                                                  [] m[2] = SkipWord -> "Skipped"
                                                  [] OTHER -> "Failed",
                                     !.Duration = m[4]]),
                    !.t = NoTest]
            ELSE [st EXCEPT !.t.Output = Write(@, lineBytes)]

\* Variant: a package without a summary line is left as it is.
finishAsIs(testPkg) == testPkg

\* The code after the loop.
finish(testPkg) ==
    IF testPkg.Result = "Skipped"
    THEN [testPkg EXCEPT !.Result = "Failed", !.notice = TRUE]
    ELSE testPkg

\* The lines of verbose go test output that the buffer is made of: the
\* start of test A and of test B, result lines for them in both forms of
\* the duration, the two summary lines, and an indented line.
RunA == RunPrefix \o <<" ", " ", "A">>
RunB == RunPrefix \o <<" ", " ", "B">>
PassA == <<"-", "-", "-", " ">> \o PassWord \o <<":", " ", "A", " ", "(", "0", ".", "0", "s", ")">>
FailB == <<"-", "-", "-", " ">> \o FailWord \o <<":", " ", "B", " ", "(", "0", ".", "1">>
             \o SecondsUnit \o <<")">>
SkipA == <<"-", "-", "-", " ">> \o SkipWord \o <<":", " ", "A", " ", "(", "0", ".", "0", "s", ")">>
TabLine == <<"\t", "x">>
OutputLines == {RunA, RunB, PassA, FailB, SkipA, PassWord, FailWord, TabLine}

\* What the buffer holds after its last newline: nothing, or a summary
\* line followed by a space.
Rests == {<<>>, PassWord \o <<" ">>}

\* What ParseTestOutput has returned: nothing yet, the packages, or nil
\* and an error.
NotReturned == [pkgs |-> <<>>, err |-> "none"]
ReturnPkgs(pkgs) == [pkgs |-> pkgs, err |-> "nil"]
ReturnErr(err) == [pkgs |-> <<>>, err |-> err]

\* ------------------------------------------------------------------ state
VARIABLES
    got,            \* the got argument of HasSameElements
    want,           \* the want argument
    chBuf,          \* elements buffered in the channel, oldest first
    chClosed,       \* the channel has been closed
    toSend,         \* elements the producer goroutine has still to send
    pc,             \* "idle", "drain", "returned" or "panicked"
    gotValueArray,  \* local gotValueArray of HasSameElements
    wantValueArray, \* local wantValueArray
    extra,          \* local extra of the last assertSameArray
    missing,        \* local missing of the last assertSameArray
    errs,           \* messages passed to Errorf by the current call
    ret,            \* "none", "true" or "false": what the call returned
    attempts,       \* TryRecv calls made by the current call
    calls,          \* HasSameElements calls started so far
    k0,             \* history: elements in the channel when the call began
    snapshot,       \* history: the channel's buffer at the first receive attempt
    sentLog,        \* history: elements sent after the first receive attempt
                    \*          and before the call returned
    sentInCall,     \* history: number of sends since the call began
    nsent,          \* history: number of sends since the start
    prev,           \* history: what the previous call drained or extracted
    report,         \* the string returned by assertSameArray called on its own
    same,           \* got and want are one and the same slice or map
    eqRet,          \* what each equality assertion returned ("none": not called)
    eqErrs,         \* the messages each equality assertion passed to Error(f)
    heap,           \* the testing.TB under test, the TracingTBs and the groups
    lastTracing,    \* argument and result of the last Tracing call
    lastAssert,     \* the last assertion made on a group
    lastCalls,      \* the calls it made on the testing.TB under test
    flagArgs,       \* what the slice passed to ForceVerboseFlag holds
    flagIn,         \* history: what it held when ForceVerboseFlag was called
    flagOut,        \* the slice ForceVerboseFlag returned (<<>>: not called)
    unusedGotIndicies,  \* local unusedGotIndicies of assertSameArray called on
                        \* its own: i (1-based), or -1 once got[i] is cancelled
    unusedWantIndicies, \* local unusedWantIndicies, likewise
    matched,        \* history: the pairs <<gotIndex, wantIndex>> it cancelled
    before,         \* history: what its previous call gave, on the same
                    \* elements in another order
    captor,         \* the ValueCaptor of the test (NoCaptor: not made yet)
    captorLog,      \* history: argument and result of each Matches call on it
    linesRead,      \* history: the lines ParseTestOutput has read from output
    eof,            \* local eof of ParseTestOutput
    parserT,        \* local t: the open test, NoTest for nil
    testPkg,        \* local testPkg
    parseRet        \* what ParseTestOutput returned

args == <<got, want>>
chan == <<chBuf, chClosed, toSend>>
locals == <<gotValueArray, wantValueArray, extra, missing>>
hist == <<k0, snapshot, sentLog, sentInCall, nsent, prev>>
\* The state of the other operations of the library, which a call of
\* HasSameElements leaves alone.
eqVars == <<same, eqRet, eqErrs>>
tbVars == <<heap, lastTracing, lastAssert, lastCalls>>
flagVars == <<flagArgs, flagIn, flagOut>>
matchVars == <<unusedGotIndicies, unusedWantIndicies, matched, before>>
captorVars == <<captor, captorLog>>
parserVars == <<linesRead, eof, parserT, testPkg, parseRet>>
others == <<report, matchVars, eqVars, tbVars, flagVars, captorVars, parserVars>>
vars == <<got, want, chBuf, chClosed, toSend, pc, gotValueArray, wantValueArray,
          extra, missing, errs, ret, attempts, calls,
          k0, snapshot, sentLog, sentInCall, nsent, prev, report,
          same, eqRet, eqErrs, heap, lastTracing, lastAssert, lastCalls,
          flagArgs, flagIn, flagOut,
          unusedGotIndicies, unusedWantIndicies, matched, before,
          captor, captorLog, linesRead, eof, parserT, testPkg, parseRet>>

\* Capacity of the channel's buffer.
ChanCap == MaxLen + MaxSends

\* The channel argument, if there is one that refers to the live channel.
LiveChan(v) == v.kind = "chan" /\ ~v.isnil

InitLocals ==
    /\ pc = "idle"
    /\ gotValueArray = NoValues
    /\ wantValueArray = NoValues
    /\ extra = <<>>
    /\ missing = <<>>
    /\ errs = <<>>
    /\ ret = "none"
    /\ attempts = 0
    /\ calls = 0
    /\ k0 = 0
    /\ snapshot = <<>>
    /\ sentLog = <<>>
    /\ sentInCall = 0
    /\ nsent = 0
    /\ prev = <<>>

\* There has been no previous call of assertSameArray on its own.
NoBefore ==
    [called |-> FALSE, extra |-> <<>>, missing |-> <<>>, matchedCount |-> 0,
     equivalent |-> FALSE]

\* assertSameArray has not been called on its own.
MatchIdle ==
    /\ unusedGotIndicies = <<>>
    /\ unusedWantIndicies = <<>>
    /\ matched = <<>>
    /\ before = NoBefore

\* The test has made no captor.
CaptorIdle ==
    /\ captor = NoCaptor
    /\ captorLog = <<>>

\* ParseTestOutput has been called and has read nothing yet.
ParserIdle ==
    /\ linesRead = <<>>
    /\ eof = FALSE
    /\ parserT = NoTest
    /\ testPkg = NewTestPackage
    /\ parseRet = NotReturned

\* No equality assertion has been called.
EqIdle ==
    /\ eqRet = [f \in EqFns |-> "none"]
    /\ eqErrs = [f \in EqFns |-> <<>>]

\* Only the testing.TB under test exists.
TBIdle ==
    /\ heap = <<TestingT>>
    /\ lastTracing = NoTracing
    /\ lastAssert = NoAssert
    /\ lastCalls = <<>>

\* ForceVerboseFlag has not been called, on an empty argument list.
FlagIdle ==
    /\ flagArgs = <<>>
    /\ flagIn = <<>>
    /\ flagOut = <<>>

\* The other operations of the library have not been used.
OthersIdle ==
    /\ report = NoReport
    /\ MatchIdle
    /\ CaptorIdle
    /\ ParserIdle
    /\ same = FALSE
    /\ EqIdle
    /\ TBIdle
    /\ FlagIdle

\* A test about to call HasSameElements(t, got, want) on any pair of
\* inputs.  A live channel passed as got (or as want, when got is not one)
\* holds some buffered elements and may already be closed; nothing sends
\* on it.
Init ==
    /\ got \in Inputs
    /\ want \in Inputs
    /\ IF LiveChan(got) \/ LiveChan(want)
       THEN /\ chBuf \in SeqsUpTo(ElemsOf(IF LiveChan(got) THEN got.elem
                                                            ELSE want.elem),
                                   MaxLen)
            /\ chClosed \in BOOLEAN
       ELSE /\ chBuf = <<>>
            /\ chClosed = FALSE
    /\ toSend = <<>>
    /\ InitLocals
    /\ OthersIdle

\* A test about to call HasSameElements(t, got, want) on a readable channel
\* (live or nil) and a slice of its element type, while a producer goroutine
\* still has elements to send on the channel.
InitChan ==
    /\ got \in {v \in ChanInputs : v.dir # "send" /\ v.elem \in {"int", "string"}}
    /\ want \in {w \in SliceInputs : w.elem = got.elem}
    /\ IF LiveChan(got)
       THEN /\ chBuf \in SeqsUpTo(ElemsOf(got.elem), MaxLen)
            /\ chClosed \in BOOLEAN
       ELSE /\ chBuf = <<>>
            /\ chClosed = FALSE
    /\ toSend \in IF chClosed THEN {<<>>}
                  ELSE SeqsUpTo(ElemsOf(got.elem), MaxSends)
    /\ InitLocals
    /\ OthersIdle

\* The tail of HasSameElements: assertSameArray, Errorf on a message, return.
Finish(gotValues, wantValues) ==
    \E r \in {assertSameArray(gotValues.vals, wantValues.vals)} :
       /\ gotValueArray' = gotValues
       /\ wantValueArray' = wantValues
       /\ extra' = r.extra
       /\ missing' = r.missing
       /\ errs' = IF r.msg # "" THEN <<r.msg>> ELSE <<>>
       /\ ret' = IF r.msg # "" THEN "false" ELSE "true"
       /\ pc' = "returned"

\* Variant: the call receives an element from a channel argument before it
\* classifies the types.
EnterRecvFirst ==
    /\ pc = "idle"
    /\ UNCHANGED others
    /\ calls' = calls + 1
    /\ k0' = Len(chBuf)
    /\ snapshot' = <<>>
    /\ sentLog' = <<>>
    /\ sentInCall' = 0
    /\ attempts' = 0
    /\ UNCHANGED <<args, chClosed, toSend, nsent, prev>>
    /\ LET c == checkContainerTypes(TypeOf(got), TypeOf(want))
       IN IF c = "panic"
          THEN /\ pc' = "panicked"
               /\ UNCHANGED <<chBuf, locals, errs, ret>>
          ELSE IF c # "ok"
          THEN /\ pc' = "returned"
               /\ errs' = <<c>>
               /\ ret' = "false"
               /\ chBuf' = IF chBuf # <<>> THEN Tail(chBuf) ELSE chBuf
               /\ UNCHANGED locals
          ELSE IF got.kind = "chan"
          THEN /\ wantValueArray' = arrayValues(want)
               /\ gotValueArray' = EmptyValues
               /\ pc' = "drain"
               /\ UNCHANGED <<chBuf, extra, missing, errs, ret>>
          ELSE /\ UNCHANGED chBuf
               /\ Finish(arrayValues(got), arrayValues(want))

\* HasSameElements from its entry: classification, extraction of want, and
\* for an array or slice got the whole comparison; for a channel got, up to
\* the first receive attempt.
Enter ==
    /\ pc = "idle"
    /\ UNCHANGED others
    /\ calls' = calls + 1
    /\ k0' = Len(chBuf)
    /\ snapshot' = <<>>
    /\ sentLog' = <<>>
    /\ sentInCall' = 0
    /\ attempts' = 0
    /\ UNCHANGED <<args, chan, nsent, prev>>
    /\ LET c == checkContainerTypes(TypeOf(got), TypeOf(want))
       IN IF c = "panic"
          THEN /\ pc' = "panicked"
               /\ UNCHANGED <<locals, errs, ret>>
          ELSE IF c # "ok"
          THEN /\ pc' = "returned"
               /\ errs' = <<c>>
               /\ ret' = "false"
               /\ UNCHANGED locals
          ELSE IF got.kind = "chan"
          THEN /\ wantValueArray' = arrayValues(want)
               /\ gotValueArray' = EmptyValues
               /\ pc' = "drain"
               /\ UNCHANGED <<extra, missing, errs, ret>>
          ELSE Finish(arrayValues(got), arrayValues(want))

\* Variant: the loop receives only as many elements as the channel held when
\* the call began.
TryRecvOkBounded == LiveChan(got) /\ chBuf # <<>> /\ attempts < k0

\* reflect.Value.TryRecv on the channel: never blocks; ok is false on a nil
\* channel and on an empty one, closed or not.
TryRecvOk == LiveChan(got) /\ chBuf # <<>>

\* Variant: a blocking receive (Recv) in place of TryRecv: it waits for an
\* element or for the channel to be closed.
RecvStep ==
    /\ pc = "drain"
    /\ UNCHANGED others
    /\ LiveChan(got)
    /\ chBuf # <<>> \/ chClosed
    /\ attempts' = attempts + 1
    /\ snapshot' = IF attempts = 0 THEN chBuf ELSE snapshot
    /\ UNCHANGED <<args, chClosed, toSend, calls, k0, sentLog, sentInCall, nsent, prev>>
    /\ IF chBuf # <<>>
       THEN /\ gotValueArray' =
                  [gotValueArray EXCEPT !.vals = Append(@, Head(chBuf))]
            /\ chBuf' = Tail(chBuf)
            /\ UNCHANGED <<wantValueArray, extra, missing, errs, ret, pc>>
       ELSE /\ UNCHANGED chBuf
            /\ Finish(gotValueArray, wantValueArray)

\* Variant: a received element is put in front of gotValueArray.
TryRecvStepPrepend ==
    /\ pc = "drain"
    /\ UNCHANGED others
    /\ attempts' = attempts + 1
    /\ snapshot' = IF attempts = 0 THEN chBuf ELSE snapshot
    /\ UNCHANGED <<args, chClosed, toSend, calls, k0, sentLog, sentInCall, nsent, prev>>
    /\ IF TryRecvOk
       THEN /\ gotValueArray' =
                  [gotValueArray EXCEPT !.vals = <<Head(chBuf)>> \o @]
            /\ chBuf' = Tail(chBuf)
            /\ UNCHANGED <<wantValueArray, extra, missing, errs, ret, pc>>
       ELSE /\ UNCHANGED chBuf
            /\ Finish(gotValueArray, wantValueArray)

\* Variant: an attempt that finds no element ends the loop only when the
\* channel is closed; on an open channel the loop tries again.
TryRecvStepWaitClose ==
    /\ pc = "drain"
    /\ UNCHANGED others
    /\ attempts' = attempts + 1
    /\ snapshot' = IF attempts = 0 THEN chBuf ELSE snapshot
    /\ UNCHANGED <<args, chClosed, toSend, calls, k0, sentLog, sentInCall, nsent, prev>>
    /\ IF TryRecvOk
       THEN /\ gotValueArray' =
                  [gotValueArray EXCEPT !.vals = Append(@, Head(chBuf))]
            /\ chBuf' = Tail(chBuf)
            /\ UNCHANGED <<wantValueArray, extra, missing, errs, ret, pc>>
       ELSE IF chClosed \/ ~LiveChan(got)
       THEN /\ UNCHANGED chBuf
            /\ Finish(gotValueArray, wantValueArray)
       ELSE UNCHANGED <<chBuf, locals, errs, ret, pc>>

\* One iteration of the drain loop; a failed attempt breaks out and the
\* call runs to its return.
TryRecvStep ==
    /\ pc = "drain"
    /\ UNCHANGED others
    /\ attempts' = attempts + 1
    /\ snapshot' = IF attempts = 0 THEN chBuf ELSE snapshot
    /\ UNCHANGED <<args, chClosed, toSend, calls, k0, sentLog, sentInCall, nsent, prev>>
    /\ IF TryRecvOk
       THEN /\ gotValueArray' =
                  [gotValueArray EXCEPT !.vals = Append(@, Head(chBuf))]
            /\ chBuf' = Tail(chBuf)
            /\ UNCHANGED <<wantValueArray, extra, missing, errs, ret, pc>>
       ELSE /\ UNCHANGED chBuf
            /\ Finish(gotValueArray, wantValueArray)

\* The producer goroutine sends its next element (a send on a full buffer
\* blocks, a nil channel blocks forever).
Send ==
    /\ LiveChan(got)
    /\ UNCHANGED others
    /\ ~chClosed
    /\ toSend # <<>>
    /\ Len(chBuf) < ChanCap
    /\ chBuf' = Append(chBuf, Head(toSend))
    /\ toSend' = Tail(toSend)
    /\ nsent' = nsent + 1
    /\ sentInCall' = IF pc = "drain" THEN sentInCall + 1 ELSE sentInCall
    /\ sentLog' = IF pc = "drain" /\ attempts > 0
                  THEN Append(sentLog, Head(toSend)) ELSE sentLog
    /\ UNCHANGED <<args, chClosed, pc, locals, errs, ret, attempts, calls,
                   k0, snapshot, prev>>

\* The producer closes the channel once it has nothing left to send.
Close ==
    /\ LiveChan(got)
    /\ UNCHANGED others
    /\ ~chClosed
    /\ toSend = <<>>
    /\ chClosed' = TRUE
    /\ UNCHANGED <<args, chBuf, toSend, pc, locals, errs, ret, attempts, calls, hist>>

\* The test calls HasSameElements again with the same arguments.
CallAgain ==
    /\ pc = "returned"
    /\ UNCHANGED others
    /\ calls < MaxCalls
    /\ pc' = "idle"
    /\ gotValueArray' = NoValues
    /\ wantValueArray' = NoValues
    /\ extra' = <<>>
    /\ missing' = <<>>
    /\ errs' = <<>>
    /\ ret' = "none"
    /\ prev' = gotValueArray.vals
    /\ UNCHANGED <<args, chan, attempts, calls, k0, snapshot, sentLog, sentInCall, nsent>>

\* The calling test alone.
Next == Enter \/ TryRecvStep \/ CallAgain

Spec == Init /\ [][Next]_vars

\* The calling test and the producer goroutine.
NextChan == Enter \/ TryRecvStep \/ CallAgain \/ Send \/ Close

SpecChan == InitChan /\ [][NextChan]_vars

\* As InitChan, with a want of at most MaxWantStall elements: what want
\* holds has no bearing on whether the drain can proceed.
InitStall ==
    /\ InitChan
    /\ Len(want.vals) <= MaxWantStall

\* One call and the producer goroutine.
NextStall == Enter \/ TryRecvStep \/ Send \/ Close

SpecStall == InitStall /\ [][NextStall]_vars

\* ------------------------------------------------- assertSameArray alone
\* Longest sequence handed to assertSameArray on its own.
MaxFormatLen == 3

\* Elements of the sequences handed to assertSameArray on its own: the
\* strings include one that cannot be backquoted.
FormatElemsOf(t) ==
    IF t = "string" THEN {"a", "a\nb"} ELSE ElemsOf(t)

\* A test about to call assertSameArray on the values of two slices of one
\* element type.
InitFormat ==
    /\ \E t \in {"int", "string"} :
          /\ got \in {MkValue("slice", t, "none", FALSE, v) :
                          v \in SeqsUpTo(FormatElemsOf(t), MaxFormatLen)}
          /\ want \in {MkValue("slice", t, "none", FALSE, v) :
                           v \in SeqsUpTo(FormatElemsOf(t), MaxFormatLen)}
    /\ chBuf = <<>>
    /\ chClosed = FALSE
    /\ toSend = <<>>
    /\ InitLocals
    /\ OthersIdle

\* assertSameArray(gotValue, wantValue) from its entry to its return.
Format ==
    /\ pc = "idle"
    /\ \E r \in {assertSameArray(got.vals, want.vals)} :
          /\ extra' = r.extra
          /\ missing' = r.missing
          /\ unusedGotIndicies' = r.unusedGotIndicies
          /\ unusedWantIndicies' = r.unusedWantIndicies
          /\ matched' = r.pairs
    /\ before' = before
    /\ report' = assertSameArrayReport(got.vals, want.vals, got.elem)
    /\ gotValueArray' = arrayValues(got)
    /\ wantValueArray' = arrayValues(want)
    /\ pc' = "returned"
    /\ UNCHANGED <<args, chan, errs, ret, attempts, calls, hist,
                   eqVars, tbVars, flagVars, captorVars, parserVars>>

NextFormat == Format

SpecFormat == InitFormat /\ [][NextFormat]_vars

\* ------------------------------------------- the matcher on permuted input
\* Longest sequence of the general inputs handed to the matcher.
MaxMatchLen == 3

\* Elements of those sequences: three ints, or the float64s with the NaN.
MatchElemsOf(t) ==
    IF t = "int" THEN {"1", "2", "3"} ELSE ElemsOf(t)

\* The two sub-ranges big_array[3:9] and a second one of the scenario
\* "got = a sub-range taken from a larger array, want = a different
\* sub-range".
SubRangeGot == <<"4", "5", "6", "5", "4", "3">>
SubRangeWant == <<"4", "3", "2", "1", "1", "2">>

\* A test about to call assertSameArray on the values of two slices of one
\* element type: any two short ones, or the two sub-ranges.
InitMatch ==
    /\ \/ \E t \in {"int", "float64"} :
             /\ got \in {MkValue("slice", t, "none", FALSE, v) :
                             v \in SeqsUpTo(MatchElemsOf(t), MaxMatchLen)}
             /\ want \in {MkValue("slice", t, "none", FALSE, v) :
                              v \in SeqsUpTo(MatchElemsOf(t), MaxMatchLen)}
       \/ /\ got = MkValue("slice", "int", "none", FALSE, SubRangeGot)
          /\ want = MkValue("slice", "int", "none", FALSE, SubRangeWant)
    /\ chBuf = <<>>
    /\ chClosed = FALSE
    /\ toSend = <<>>
    /\ InitLocals
    /\ OthersIdle

\* The sequence s with its elements at i and j exchanged.
Swap(s, i, j) == [s EXCEPT ![i] = s[j], ![j] = s[i]]

\* The test exchanges two elements of got, or two of want (short ones),
\* and calls assertSameArray on the outcome.
FormatAgain ==
    /\ pc = "returned"
    /\ Len(got.vals) <= MaxMatchLen
    /\ Len(want.vals) <= MaxMatchLen
    /\ \/ \E i, j \in DOMAIN got.vals :
             /\ i < j
             /\ got' = [got EXCEPT !.vals = Swap(got.vals, i, j)]
             /\ want' = want
       \/ \E i, j \in DOMAIN want.vals :
             /\ i < j
             /\ want' = [want EXCEPT !.vals = Swap(want.vals, i, j)]
             /\ got' = got
    /\ \E r \in {assertSameArray(got'.vals, want'.vals)} :
          /\ extra' = r.extra
          /\ missing' = r.missing
          /\ unusedGotIndicies' = r.unusedGotIndicies
          /\ unusedWantIndicies' = r.unusedWantIndicies
          /\ matched' = r.pairs
    /\ before' = [called |-> TRUE, extra |-> extra, missing |-> missing,
                  matchedCount |-> Len(matched),
                  equivalent |-> report.text = ""]
    /\ report' = assertSameArrayReport(got'.vals, want'.vals, got'.elem)
    /\ gotValueArray' = arrayValues(got')
    /\ wantValueArray' = arrayValues(want')
    /\ UNCHANGED <<chan, pc, errs, ret, attempts, calls, hist,
                   eqVars, tbVars, flagVars, captorVars, parserVars>>

NextMatch == Format \/ FormatAgain

SpecMatch == InitMatch /\ [][NextMatch]_vars

\* ------------------------------------------------ the equality assertions
\* The state of HasSameElements, which the other operations leave alone.
hseVars == <<chan, pc, locals, errs, ret, attempts, calls, hist>>

\* A test about to call the equality assertions on any pair of inputs; a
\* slice or a map may be passed as both got and want.
InitEq ==
    /\ got \in EqInputs
    /\ want \in EqInputs
    /\ same \in IF got.kind = want.kind /\ got.kind \in {"slice", "map"}
                    /\ ~got.isnil /\ got = want
                 THEN BOOLEAN ELSE {FALSE}
    /\ EqIdle
    /\ TBIdle
    /\ FlagIdle
    /\ report = NoReport
    /\ MatchIdle
    /\ CaptorIdle
    /\ ParserIdle
    /\ chBuf = <<>>
    /\ chClosed = FALSE
    /\ toSend = <<>>
    /\ InitLocals

\* The call f(t, got, want) with outcome r.
Returns(f, r) ==
    /\ eqRet[f] = "none"
    /\ eqRet' = [eqRet EXCEPT ![f] = r.ret]
    /\ eqErrs' = [eqErrs EXCEPT ![f] = r.errs]
    /\ UNCHANGED <<args, same, report, matchVars, captorVars, parserVars, hseVars, tbVars, flagVars>>

CallArrayEqual ==
    \E r \in {ArrayEqual(got, want)} : Returns("ArrayEqual", r)

CallMapEqual ==
    \E wantKeys \in KeyOrdersOf(want), gotKeys \in KeyOrdersOf(got) :
        Returns("MapEqual", MapEqual(got, want, wantKeys, gotKeys))

CallDeepEqual ==
    \E wantKeys \in KeyOrdersOf(want), gotKeys \in KeyOrdersOf(got) :
        Returns("DeepEqual", AssertDeepEqual(got, want, same, wantKeys, gotKeys))

CallNotDeepEqual ==
    \E r \in {NotDeepEqual(got, want, same)} : Returns("NotDeepEqual", r)

NextEq == CallArrayEqual \/ CallMapEqual \/ CallDeepEqual \/ CallNotDeepEqual

SpecEq == InitEq /\ [][NextEq]_vars

\* ---------------------------------------------- Tracing and the groups
\* One got and one want, for the operations that take neither.
NoArgs ==
    /\ got = MkValue("nil", "none", "none", TRUE, <<>>)
    /\ want = MkValue("nil", "none", "none", TRUE, <<>>)
    /\ chBuf = <<>>
    /\ chClosed = FALSE
    /\ toSend = <<>>
    /\ InitLocals

\* A test that holds its testing.TB and nothing else.
InitTB ==
    /\ NoArgs
    /\ report = NoReport
    /\ MatchIdle
    /\ CaptorIdle
    /\ ParserIdle
    /\ same = FALSE
    /\ EqIdle
    /\ TBIdle
    /\ FlagIdle

\* The test calls Tracing(t) on an object it holds.
CallTracing ==
    \E t \in DOMAIN heap :
       \E r \in {Tracing(heap, t)} :
          /\ Len(r.heap) <= MaxObjects
          /\ heap' = r.heap
          /\ lastTracing' = [arg |-> t, res |-> r.ref]
          /\ UNCHANGED <<args, hseVars, report, matchVars, captorVars, parserVars, eqVars, flagVars, lastAssert, lastCalls>>

\* Group(name, t, f) on the testing.TB or on a TracingTB, up to the call
\* of f: the group is G{Tracing(t), name}.
CallGroup ==
    \E t \in {i \in DOMAIN heap : heap[i].type # "G"}, name \in GroupNames :
       \E r \in {Tracing(heap, t)} :
          /\ Len(r.heap) < MaxObjects
          /\ heap' = Append(r.heap, NewG(r.ref, name, <<name>>))
          /\ UNCHANGED <<args, hseVars, report, matchVars, captorVars, parserVars, eqVars, flagVars,
                         lastTracing, lastAssert, lastCalls>>

\* grp.Group(name, f) up to the call of f: the nested group is
\* G{Tracing(grp.TB), grp.Name + " " + name}.
CallNestedGroup ==
    \E grp \in {i \in DOMAIN heap : heap[i].type = "G"}, name \in GroupNames :
       \E r \in {Tracing(heap, heap[grp].tb)} :
          /\ Len(r.heap) < MaxObjects
          /\ heap' = Append(r.heap,
                            NewG(r.ref, heap[grp].name \o <<" ">> \o name,
                                 Append(heap[grp].path, name)))
          /\ UNCHANGED <<args, hseVars, report, matchVars, captorVars, parserVars, eqVars, flagVars,
                         lastTracing, lastAssert, lastCalls>>

\* An assertion that reports through one call of Errorf, Error, Fatalf or
\* Fatal, called with a group, fails, or the test calls one of the four on
\* the group: Tracing(g) is g, whose method runs.
AssertFails ==
    \E g \in {i \in DOMAIN heap : heap[i].type = "G"},
       method \in TBMethods, body \in Bodies :
       /\ lastAssert' = [on |-> g, method |-> method, failed |-> TRUE]
       /\ lastCalls' = IF IsFormatted(method)
                       THEN Deliver(heap, Tracing(heap, g).ref, method,
                                    body.format, body.args)
                       ELSE Deliver(heap, Tracing(heap, g).ref, method,
                                    <<>>, <<body.format>> \o body.args)
       /\ UNCHANGED <<args, hseVars, report, matchVars, captorVars, parserVars, eqVars, flagVars, heap, lastTracing>>

\* An assertion that reports through one call of Errorf, Error, Fatalf or
\* Fatal, called with a group, passes.
AssertPasses ==
    \E g \in {i \in DOMAIN heap : heap[i].type = "G"} :
       /\ lastAssert' = [on |-> g, method |-> "", failed |-> FALSE]
       /\ lastCalls' = <<>>
       /\ UNCHANGED <<args, hseVars, report, matchVars, captorVars, parserVars, eqVars, flagVars, heap, lastTracing>>

\* What an assertion on the group g that returned r leaves: the method it
\* reports a failure through, whether it returned false, and its calls.
Asserted(g, method, r) ==
    /\ lastAssert' = [on |-> g, method |-> IF r.ret THEN "" ELSE method,
                      failed |-> ~r.ret]
    /\ lastCalls' = r.calls
    /\ UNCHANGED <<args, hseVars, report, matchVars, captorVars, parserVars, eqVars, flagVars, heap, lastTracing>>

\* MatchesRegex(g, "x", wantRegex) on a group.
CallMatchesRegex ==
    \E g \in {i \in DOMAIN heap : heap[i].type = "G"}, wantRegex \in WantRegexes :
       Asserted(g, "Errorf", MatchesRegex(heap, g, <<"x">>, wantRegex))

\* DoesNotMatchRegex(g, "x", wantRegex) on a group.
CallDoesNotMatchRegex ==
    \E g \in {i \in DOMAIN heap : heap[i].type = "G"}, wantRegex \in WantRegexes :
       Asserted(g, "Errorf", DoesNotMatchRegex(heap, g, <<"x">>, wantRegex))

\* EqualJson(g, got, want) on a group.
CallEqualJson ==
    \E g \in {i \in DOMAIN heap : heap[i].type = "G"}, in \in JsonInputs :
       Asserted(g, "Error", EqualJson(heap, g, in[1], in[2]))

\* NotEqualJson(g, got, want) on a group.
CallNotEqualJson ==
    \E g \in {i \in DOMAIN heap : heap[i].type = "G"}, in \in JsonInputs :
       Asserted(g, "Error", NotEqualJson(heap, g, in[1], in[2]))

NextTB ==
    \/ CallTracing \/ CallGroup \/ CallNestedGroup \/ AssertFails \/ AssertPasses
    \/ CallMatchesRegex \/ CallDoesNotMatchRegex \/ CallEqualJson \/ CallNotEqualJson

SpecTB == InitTB /\ [][NextTB]_vars

\* ------------------------------------------------------ ForceVerboseFlag
\* A caller about to hand an argument list to ForceVerboseFlag.
InitFlag ==
    /\ NoArgs
    /\ report = NoReport
    /\ MatchIdle
    /\ CaptorIdle
    /\ ParserIdle
    /\ same = FALSE
    /\ EqIdle
    /\ TBIdle
    /\ flagArgs \in SeqsUpTo(FlagArgs, MaxArgs)
    /\ flagIn = <<>>
    /\ flagOut = <<>>

\* ForceVerboseFlag(args) from its entry to its return.
CallForceVerboseFlag ==
    /\ flagOut = <<>>
    /\ \E r \in {ForceVerboseFlag(flagArgs)} :
          /\ flagOut' = r.out
          /\ flagArgs' = r.args
    /\ flagIn' = flagArgs
    /\ UNCHANGED <<args, hseVars, report, matchVars, captorVars, parserVars, eqVars, tbVars>>

NextFlag == CallForceVerboseFlag

SpecFlag == InitFlag /\ [][NextFlag]_vars

\* ------------------------------------------------------------ ValueCaptor
\* The state of the assertions, which the captor and the parser leave alone.
assertVars == <<args, hseVars, report, matchVars, eqVars, tbVars, flagVars>>

\* A test that has made no captor yet.
InitCaptor ==
    /\ NoArgs
    /\ OthersIdle

\* The test makes its captor with CaptureAny().
CallCaptureAny ==
    /\ captor = NoCaptor
    /\ captor' = CaptureAny
    /\ UNCHANGED <<assertVars, captorLog, parserVars>>

\* The test makes its captor with CaptureMatching(m); m may be nil.
CallCaptureMatching ==
    /\ captor = NoCaptor
    /\ \E m \in PredicateMatchers \cup {NilMatcher} :
          captor' = CaptureMatching(m)
    /\ UNCHANGED <<assertVars, captorLog, parserVars>>

\* The test makes its captor with CaptureType(t).
CallCaptureType ==
    /\ captor = NoCaptor
    /\ \E t \in CaptorTypes : captor' = CaptureType(t)
    /\ UNCHANGED <<assertVars, captorLog, parserVars>>

\* captor.Matches(x) from its entry to its return.
CallMatches ==
    /\ captor # NoCaptor
    /\ Len(captorLog) < MaxMatches
    /\ \E x \in CaptorValues :
          \E r \in {Matches(captor, x)} :
             /\ captor' = r.vc
             /\ captorLog' = Append(captorLog, [x |-> x, ret |-> r.ret])
    /\ UNCHANGED <<assertVars, parserVars>>

NextCaptor ==
    CallCaptureAny \/ CallCaptureMatching \/ CallCaptureType \/ CallMatches

SpecCaptor == InitCaptor /\ [][NextCaptor]_vars

\* -------------------------------------------------------- ParseTestOutput
\* ParseTestOutput(pkgName, duration, output) at the top of its loop, on a
\* buffer of which nothing is known yet.
InitParser ==
    /\ NoArgs
    /\ OthersIdle

\* One turn of the loop on a line that ends in a newline; it returns nil
\* and the error on a second summary line.
ReadLine ==
    /\ parseRet = NotReturned
    /\ ~eof
    /\ Len(linesRead) < MaxLines
    /\ \E lineBytes \in OutputLines :
          \E st \in {loopBody([t |-> parserT, testPkg |-> testPkg, err |-> "nil"],
                              lineBytes)} :
             /\ linesRead' = Append(linesRead, lineBytes)
             /\ parserT' = st.t
             /\ testPkg' = st.testPkg
             /\ parseRet' = IF st.err # "nil" THEN ReturnErr(st.err) ELSE NotReturned
    /\ UNCHANGED <<assertVars, captorVars, eof>>

\* The last turn of the loop, on what follows the last newline (ReadBytes
\* gives it with io.EOF), and the return.
ReadRest ==
    /\ parseRet = NotReturned
    /\ ~eof
    /\ \E lineBytes \in Rests :
          \E st \in {loopBody([t |-> parserT, testPkg |-> testPkg, err |-> "nil"],
                              lineBytes)} :
             /\ linesRead' = Append(linesRead, lineBytes)
             /\ parserT' = st.t
             /\ IF st.err # "nil"
                THEN /\ testPkg' = st.testPkg
                     /\ parseRet' = ReturnErr(st.err)
                ELSE /\ testPkg' = finish(st.testPkg)
                     /\ parseRet' = ReturnPkgs(<<testPkg'>>)
    /\ eof' = TRUE
    /\ UNCHANGED <<assertVars, captorVars>>

NextParser == ReadLine \/ ReadRest

SpecParser == InitParser /\ [][NextParser]_vars

\* ----------------------------------------------------------- properties
\* Number of positions of s that hold the value v.
Count(v, s) == Cardinality({i \in DOMAIN s : s[i] = v})

\* The two sequences hold the same values with the same multiplicities.
SameBag(s, t) == \A v \in AllElems : Count(v, s) = Count(v, t)

\* Every element of s is deeply equal to itself.
AllReflexive(s) == \A i \in DOMAIN s : DeepEqual(s[i], s[i])

Max(a, b) == IF a >= b THEN a ELSE b

\* The call returned after checkContainerTypes accepted the inputs.
Compared ==
    /\ pc = "returned"
    /\ errs = <<>> \/ errs = <<MismatchMsg>>

\* checkContainerTypes accepted the inputs of the current call.
Accepted == pc = "drain" \/ Compared

\* The elements of the got side: those of the array or slice, or those
\* drained from the channel.
GotElems == IF got.kind = "chan" THEN gotValueArray.vals ELSE got.vals

IsReadableContainer(v) ==
    v.kind \in {"array", "slice"} \/ (v.kind = "chan" /\ v.dir # "send")

\* got is an array, a slice or a receivable channel, want an array or a
\* slice, and the element types are identical.
Eligible ==
    /\ IsReadableContainer(got)
    /\ want.kind \in {"array", "slice"}
    /\ got.elem = want.elem

\* C1 as stated: for non-nil eligible containers HasSameElements returns
\* true exactly when got and want hold the same elements with the same
\* multiplicities, in particular for every permutation of a sequence.
C1_SameBagOriginal ==
    (Compared /\ ~got.isnil /\ ~want.isnil)
        => (ret = "true" <=> SameBag(GotElems, want.vals))

\* C1 amended: HasSameElements returns true exactly when got and want hold
\* the same elements with the same multiplicities and every element is
\* deeply equal to itself (a NaN is not, so a sequence holding one is
\* reported different from each of its permutations).
C1_SameBag ==
    (Compared /\ ~got.isnil /\ ~want.isnil)
        => (ret = "true" <=> /\ SameBag(GotElems, want.vals)
                             /\ AllReflexive(GotElems)
                             /\ AllReflexive(want.vals))

\* A slice compared equal to a different permutation of its elements.
C1_Witness ==
    /\ Compared
    /\ ret = "true"
    /\ got.kind = "slice"
    /\ want.kind = "array"
    /\ got.vals = <<"1", "2", "1">>
    /\ want.vals = <<"1", "1", "2">>

\* C2 as stated: a value occurring a times in got and b times in want
\* occurs max(0, a-b) times in extra and max(0, b-a) times in missing.
C2_OneForOneOriginal ==
    Compared =>
        \A v \in AllElems :
            LET a == Count(v, gotValueArray.vals)
                b == Count(v, wantValueArray.vals)
            IN /\ Count(v, extra) = Max(0, a - b)
               /\ Count(v, missing) = Max(0, b - a)

\* C2 amended: the one-for-one cancellation counts hold for every value
\* that is deeply equal to itself; a value that is not (NaN) never
\* cancels, so all its a copies are in extra and all its b copies in missing.
C2_OneForOne ==
    Compared =>
        \A v \in AllElems :
            LET a == Count(v, gotValueArray.vals)
                b == Count(v, wantValueArray.vals)
            IN IF DeepEqual(v, v)
               THEN /\ Count(v, extra) = Max(0, a - b)
                    /\ Count(v, missing) = Max(0, b - a)
               ELSE /\ Count(v, extra) = a
                    /\ Count(v, missing) = b

\* got [1,1,1] against want [1,2,2]: extra [1,1], missing [2,2].
C2_Witness ==
    /\ Compared
    /\ got.vals = <<"1", "1", "1">>
    /\ want.vals = <<"1", "2", "2">>
    /\ extra = <<"1", "1">>
    /\ missing = <<"2", "2">>

\* C3 as stated: a nil slice against a non-nil empty slice of the same
\* element type, in either position, returns false with a failure
\* reported; nil against nil returns true.
C3_NilVsEmpty ==
    ( /\ pc = "returned"
      /\ got.kind = "slice" /\ want.kind = "slice"
      /\ got.elem = want.elem
      /\ got.vals = <<>> /\ want.vals = <<>> )
        => /\ (got.isnil # want.isnil) => (ret = "false" /\ errs # <<>>)
           /\ (got.isnil /\ want.isnil) => ret = "true"

\* C4: the classifier accepts a pair exactly when got is an array, a slice
\* or a receivable channel, want is an array or a slice and the element
\* types are identical; every other pair of types is rejected with one
\* classification error.
C4_TypeGate ==
    pc # "idle" =>
        /\ Accepted <=> Eligible
        /\ (~Eligible /\ got.kind # "nil" /\ want.kind # "nil")
              => /\ pc = "returned"
                 /\ ret = "false"
                 /\ Len(errs) = 1
                 /\ errs[1] # MismatchMsg

\* A receive-only channel accepted against an array of its element type.
C4_Witness ==
    /\ pc = "drain"
    /\ got.kind = "chan"
    /\ got.dir = "recv"
    /\ want.kind = "array"
    /\ Len(want.vals) = MaxLen

\* C5 as stated: a string container against an int container, in either
\* position, always fails with the element-type-mismatch error.
C5_TypeMismatchOriginal ==
    ( /\ pc # "idle"
      /\ IsReadableContainer(got) /\ IsReadableContainer(want)
      /\ {got.elem, want.elem} = {"string", "int"} )
        => /\ pc = "returned"
           /\ ret = "false"
           /\ errs = <<"contains types do not match">>

\* C5 amended: a string container against an int container always fails;
\* the error is the element-type mismatch when want is an array or a
\* slice, and the want-kind error when want is a channel.
C5_TypeMismatch ==
    ( /\ pc # "idle"
      /\ IsReadableContainer(got) /\ IsReadableContainer(want)
      /\ {got.elem, want.elem} = {"string", "int"} )
        => /\ pc = "returned"
           /\ ret = "false"
           /\ errs = IF want.kind = "chan"
                     THEN <<"want type must be an array or slice">>
                     ELSE <<"contains types do not match">>

\* A string slice rejected against an int array, both with contents.
C5_Witness ==
    /\ pc = "returned"
    /\ got.kind = "slice" /\ got.elem = "string" /\ got.vals = <<"a", "a">>
    /\ want.kind = "array" /\ want.elem = "int" /\ want.vals = <<"1", "2">>
    /\ errs = <<"contains types do not match">>

\* C6 as stated: on every pair of inputs the call ends by returning true
\* or false, ineligible inputs being reported through Errorf; it never
\* panics.
C6_NeverPanics ==
    /\ pc # "panicked"
    /\ (pc = "returned" /\ ~Eligible) => (ret = "false" /\ Len(errs) = 1)

\* A failed attempt of the drain loop, which ends the call.
DrainEnds == TryRecvStep /\ pc' = "returned"

\* C7: while the call drains, a receive attempt can always be made (it
\* never waits for the producer), and when the channel holds no element
\* (empty or nil, open or closed) the attempt ends the call.
C7_NeverBlocks ==
    pc = "drain" =>
        IF TryRecvOk THEN ENABLED TryRecvStep ELSE ENABLED DrainEnds

\* A call returned from an open, empty channel whose producer had not
\* sent what it has to send.
C7_Witness ==
    /\ pc = "returned"
    /\ LiveChan(got)
    /\ ~chClosed
    /\ toSend # <<>>
    /\ calls = 1
    /\ attempts = 1
    /\ nsent = 0

\* C8: with no producer, the drain yields exactly the buffered elements in
\* receive order and leaves the channel empty, so a second call on the
\* same channel compares the empty sequence against want.
C8_DrainOnce ==
    (Compared /\ got.kind = "chan" /\ nsent = 0)
        => /\ gotValueArray.vals = snapshot
           /\ chBuf = <<>>
           /\ calls >= 2 => /\ gotValueArray.vals = <<>>
                            /\ extra = <<>>
                            /\ missing = want.vals

\* The second call on an open channel that held 1, 2, 1.
C8_Witness ==
    /\ Compared
    /\ got.kind = "chan"
    /\ ~chClosed
    /\ calls = 2
    /\ prev = <<"1", "2", "1">>
    /\ gotValueArray.vals = <<>>
    /\ Len(want.vals) = 3
    /\ missing = want.vals

\* C9 as stated: the sequence extracted from an unclosed channel is the
\* elements buffered when the drain began, also when a producer sends
\* while the drain loop is running.
C9_SnapshotOriginal ==
    (Compared /\ got.kind = "chan" /\ ~chClosed)
        => gotValueArray.vals = snapshot

\* C9 amended: the sequence extracted is the elements buffered when the
\* drain began followed by the elements sent while the drain loop was
\* running; it is the snapshot alone when nothing was sent meanwhile.
C9_Snapshot ==
    (Compared /\ got.kind = "chan")
        => gotValueArray.vals = snapshot \o sentLog

\* A drain that consumed an element sent after its first receive attempt.
C9_Witness ==
    /\ Compared
    /\ got.kind = "chan"
    /\ ~chClosed
    /\ snapshot # <<>>
    /\ sentLog # <<>>
    /\ gotValueArray.vals = snapshot \o sentLog

\* C10 as stated: a call on a channel makes at most k+1 receive attempts,
\* k being the number of elements available when the call began, also
\* when a producer keeps sending during the call.
C10_AttemptsOriginal ==
    (got.kind = "chan" /\ pc \in {"drain", "returned"})
        => attempts <= k0 + 1

\* C10 amended: a call on a channel that completes has made r+1 receive
\* attempts, r being the number of elements it received, at most k plus
\* the number of elements sent during the call; it is k+1 when nothing
\* was sent during the call.
C10_Attempts ==
    (Compared /\ got.kind = "chan")
        => /\ attempts = Len(gotValueArray.vals) + 1
           /\ attempts <= k0 + sentInCall + 1
           /\ sentInCall = 0 => attempts = k0 + 1

\* A call that needed k+2 attempts because of a send during the call.
C10_Witness ==
    /\ Compared
    /\ got.kind = "chan"
    /\ sentInCall = 1
    /\ attempts = k0 + 2

\* The call was turned down by checkContainerTypes.
Rejected ==
    /\ pc = "returned"
    /\ errs # <<>>
    /\ errs # <<MismatchMsg>>

\* C11: when checkContainerTypes rejects the inputs, HasSameElements
\* returns false at once without receiving from a channel passed as got or
\* as want: the step that rejects leaves the channel's contents and its
\* open/closed state as they were and makes no receive attempt.
C11_RejectFrame ==
    [][(pc = "idle" /\ Rejected')
          => /\ chBuf' = chBuf
             /\ chClosed' = chClosed
             /\ attempts' = 0
             /\ ret' = "false"]_vars

\* A send-only channel holding MaxLen elements rejected as got, and the
\* elements are still in the channel.
C11_Witness ==
    /\ Rejected
    /\ got.kind = "chan"
    /\ got.dir = "send"
    /\ ~got.isnil
    /\ want.kind = "slice"
    /\ Len(chBuf) = MaxLen
    /\ attempts = 0
    /\ ret = "false"

\* Number of copies of v that one side holds beyond those of the other.
Surplus(v, s, t) == Max(0, Count(v, s) - Count(v, t))

\* Some element of s has more copies in s than in t.
HasSurplus(s, t, elemType) ==
    \E v \in FormatElemsOf(elemType) : Surplus(v, s, t) > 0

\* C12: assertSameArray returns the empty string exactly when the two
\* sequences are equivalent; otherwise its report holds the whole got
\* listing, the whole want listing and both lengths, a 'missing elements'
\* clause exactly when some wanted element found no partner and an 'extra
\* elements' clause exactly when some got element found none.
C12_Report ==
    (pc = "returned" /\ calls = 0) =>
        /\ report.text = "" <=> /\ ~HasSurplus(got.vals, want.vals, got.elem)
                                /\ ~HasSurplus(want.vals, got.vals, got.elem)
        /\ report.text # "" =>
              /\ Len(report.gotValueStr) = Len(got.vals)
              /\ Len(report.wantValueStr) = Len(want.vals)
              /\ report.gotLen = Len(got.vals)
              /\ report.wantLen = Len(want.vals)
              /\ report.missingStr # "" <=> HasSurplus(want.vals, got.vals, got.elem)
              /\ report.extraStr # "" <=> HasSurplus(got.vals, want.vals, got.elem)
              /\ report.text =
                    "got [" \o Join(report.gotValueStr, ", ") \o "] (len "
                    \o ToString(report.gotLen) \o "), wanted ["
                    \o Join(report.wantValueStr, ", ") \o "] (len "
                    \o ToString(report.wantLen) \o ")"
                    \o report.missingStr \o report.extraStr

\* got [1] against want [1, 2]: a report with a missing clause and no
\* extra clause.
C12_Witness ==
    /\ pc = "returned"
    /\ calls = 0
    /\ got.vals = <<"1">>
    /\ want.vals = <<"1", "2">>
    /\ report.text =
          "got [(int) 1] (len 1), wanted [(int) 1, (int) 2] (len 2); missing elements: [2]"
    /\ report.extraStr = ""

\* The rendering of a string element that the quoting rule gives.
QuotedString(s) == stringify(GoString(s), "string")

\* C13 as stated: in a report every string element is rendered by the
\* quoting rule (backquoted when it can be, double-quoted and escaped
\* otherwise) in the got listing, the want listing, the missing clause and
\* the extra clause; only elements that are not strings are rendered in
\* the generic way.
C13_StringsQuoted ==
    (pc = "returned" /\ calls = 0 /\ report.text # "") =>
        IF got.elem = "string"
        THEN /\ \A i \in DOMAIN got.vals :
                   report.gotValueStr[i] = "(string) " \o QuotedString(got.vals[i])
             /\ \A i \in DOMAIN want.vals :
                   report.wantValueStr[i] = "(string) " \o QuotedString(want.vals[i])
             /\ missing # <<>> =>
                   report.missingStr = "; missing elements: ["
                       \o Join([i \in DOMAIN missing |-> QuotedString(missing[i])], " ")
                       \o "]"
             /\ extra # <<>> =>
                   report.extraStr = "; extra elements: ["
                       \o Join([i \in DOMAIN extra |-> QuotedString(extra[i])], " ")
                       \o "]"
        ELSE /\ \A i \in DOMAIN got.vals :
                   report.gotValueStr[i] = "(" \o got.elem \o ") " \o got.vals[i]
             /\ \A i \in DOMAIN want.vals :
                   report.wantValueStr[i] = "(" \o want.elem \o ") " \o want.vals[i]

\* got and want are arrays or slices, both nil or both non-nil, of the same
\* length and with deeply equal elements at every index.
SameAtEveryIndex ==
    /\ isArrayLike(got) /\ isArrayLike(want)
    /\ got.isnil = want.isnil
    /\ Len(got.vals) = Len(want.vals)
    /\ \A i \in DOMAIN got.vals :
          IfaceDeepEqual(got.vals[i], got.elem, want.vals[i], want.elem)

\* C14: ArrayEqual returns true exactly when both arguments are arrays or
\* slices, both nil or both non-nil, of the same length and deeply equal at
\* every index (a slice and an array with the same elements are equal, a
\* nil slice and an empty slice or array are not, in either order); when
\* it returns false, a non-array argument included, it reports one error.
C14_ArrayEqual ==
    eqRet["ArrayEqual"] # "none" =>
        /\ eqRet["ArrayEqual"] = (IF SameAtEveryIndex THEN "true" ELSE "false")
        /\ Len(eqErrs["ArrayEqual"]) = (IF SameAtEveryIndex THEN 0 ELSE 1)

\* A slice found equal to an array with the same elements.
C14_Witness ==
    /\ eqRet["ArrayEqual"] = "true"
    /\ got.kind = "slice"
    /\ want.kind = "array"
    /\ got.vals = <<"1", "2">>
    /\ want.vals = <<"1", "2">>

\* C15 as stated: DeepEqual(t, got, want) returns true if and only if
\* reflect.DeepEqual(got, want) is true, for every pair of inputs, pairs of
\* arrays or slices and pairs of maps included.
C15_DeepEqualIsReflect ==
    eqRet["DeepEqual"] # "none" =>
        (eqRet["DeepEqual"] = "true" <=> ReflectDeepEqual(got, want, same))

\* C16 as stated: of DeepEqual(t, got, want) and NotDeepEqual(t, got,
\* want) exactly one returns true, and the one that returns false reports
\* exactly one error.
C16_Complementary ==
    (eqRet["DeepEqual"] # "none" /\ eqRet["NotDeepEqual"] # "none") =>
        /\ {eqRet["DeepEqual"], eqRet["NotDeepEqual"]} = {"true", "false"}
        /\ \A f \in {"DeepEqual", "NotDeepEqual"} :
              Len(eqErrs[f]) = (IF eqRet[f] = "false" THEN 1 ELSE 0)

\* The lines a MapEqual report on two non-nil maps has to hold, in any
\* order: a wanted key with another value, a wanted key that got lacks, a
\* got key that want lacks.
WantedLines ==
    {Line("key", k) : k \in {k \in DOMAIN want.vals \cap DOMAIN got.vals :
                                 ~DeepEqual(got.vals[k], want.vals[k])}}
    \cup {Line("missing key", k) : k \in DOMAIN want.vals \ DOMAIN got.vals}
    \cup {Line("extra key", k) : k \in DOMAIN got.vals \ DOMAIN want.vals}

\* C17 as stated: MapEqual returns true exactly when both arguments are
\* maps, both nil or both non-nil, with the same key set and deeply equal
\* values under every key; otherwise it returns false and reports exactly
\* one error, which for non-nil maps lists every 'key', 'missing key' and
\* 'extra key'.
C17_MapEqual ==
    eqRet["MapEqual"] # "none" =>
        IF /\ isMap(got) /\ isMap(want)
           /\ got.isnil = want.isnil
           /\ DOMAIN got.vals = DOMAIN want.vals
           /\ \A k \in DOMAIN got.vals : DeepEqual(got.vals[k], want.vals[k])
        THEN eqRet["MapEqual"] = "true" /\ eqErrs["MapEqual"] = <<>>
        ELSE /\ eqRet["MapEqual"] = "false"
             /\ Len(eqErrs["MapEqual"]) = 1
             /\ (isMap(got) /\ isMap(want) /\ ~got.isnil /\ ~want.isnil) =>
                   LET lines == eqErrs["MapEqual"][1].lines
                   IN /\ {lines[i] : i \in DOMAIN lines} = WantedLines
                      /\ Len(lines) = Cardinality(WantedLines)

\* C18: Tracing applied to a *TracingTB or a *G returns that same
\* instance and changes nothing, so Tracing(Tracing(t)) is the object
\* Tracing(t); applied to any other testing.TB it returns a new TracingTB
\* whose embedded TB is t.
C18_TracingIdempotent ==
    [][lastTracing' # lastTracing =>
          LET t == lastTracing'.arg
              r == lastTracing'.res
          IN /\ IF heap[t].type \in {"TracingTB", "G"}
                THEN r = t /\ heap' = heap
                ELSE /\ r \notin DOMAIN heap
                     /\ heap' = Append(heap, NewTracingTB(t))
             /\ Tracing(heap', r) = [ref |-> r, heap |-> heap']]_vars

\* Tracing called on a group nested in another returned the group.
C18_Witness ==
    /\ lastTracing.arg # 0
    /\ lastTracing.res = lastTracing.arg
    /\ heap[lastTracing.arg].type = "G"
    /\ Len(heap[lastTracing.arg].path) = 2

\* The names joined by single spaces.
RECURSIVE JoinNames(_)
JoinNames(path) ==
    IF path = <<>> THEN <<>>
    ELSE IF Len(path) = 1 THEN path[1]
    ELSE path[1] \o <<" ">> \o JoinNames(Tail(path))

StartsWith(text, prefix) ==
    /\ Len(text) >= Len(prefix)
    /\ SubSeq(text, 1, Len(prefix)) = prefix

\* The text ends with the stack trace (the newlines that end the trace
\* may be missing).
EndsWithTrace(text) ==
    \E n \in 2..3 :
       /\ Len(text) >= n
       /\ SubSeq(text, Len(text) - n + 1, Len(text)) = SubSeq(stackTrace, 1, n)

\* C19 as stated: a failing assertion on a group (or Errorf, Error, Fatalf
\* or Fatal called on it) makes exactly one call of the corresponding
\* method on the testing.TB under test; the message starts with the names
\* of all enclosing groups joined by single spaces followed by ': ' and
\* carries exactly one stack trace, appended; a passing assertion makes no
\* call.
C19_GroupPrefix ==
    lastAssert.on # 0 =>
        IF lastAssert.failed
        THEN /\ Len(lastCalls) = 1
             /\ lastCalls[1].method = lastAssert.method
             /\ StartsWith(lastCalls[1].msg,
                           JoinNames(heap[lastAssert.on].path) \o <<":", " ">>)
             /\ Count(StackTrace, lastCalls[1].msg) = 1
             /\ EndsWithTrace(lastCalls[1].msg)
        ELSE lastCalls = <<>>

\* -test.v=true occurs in a before any -test.v=false.
TrueBeforeFalse(a) ==
    \E i \in DOMAIN a :
       /\ a[i] = VerboseTrue
       /\ \A j \in 1..(i - 1) : a[j] # VerboseFalse

\* C20 as stated: the list ForceVerboseFlag returns always holds
\* -test.v=true; when the input holds -test.v=true before any -test.v=false
\* the input is returned as it is; otherwise -test.v=true is appended as
\* the last element, behind the arguments of the input in their order.
C20_ForceVerboseOriginal ==
    flagOut # <<>> =>
        /\ \E i \in DOMAIN flagOut : flagOut[i] = VerboseTrue
        /\ IF TrueBeforeFalse(flagIn)
           THEN flagOut = flagIn
           ELSE /\ Len(flagOut) = Len(flagIn) + 1
                /\ flagOut[Len(flagOut)] = VerboseTrue
                /\ \A j \in DOMAIN flagIn : flagOut[j] = flagIn[j]

\* The place of the first -test.v=false of a, Len(a) + 1 when it has none.
FirstFalse(a) ==
    CHOOSE k \in 1..(Len(a) + 1) :
       /\ k <= Len(a) => a[k] = VerboseFalse
       /\ \A j \in 1..(k - 1) : a[j] # VerboseFalse

\* C20: the list ForceVerboseFlag returns always holds -test.v=true; when
\* the input holds -test.v=true before any -test.v=false the input is
\* returned as it is; otherwise the result is the input without its first
\* -test.v=false (when it holds one) followed by -test.v=true as the last
\* element: the arguments in front of the first -test.v=false keep their
\* places, those behind it move one place down, and nothing else goes.
C20_ForceVerbose ==
    flagOut # <<>> =>
        /\ \E i \in DOMAIN flagOut : flagOut[i] = VerboseTrue
        /\ IF TrueBeforeFalse(flagIn)
           THEN flagOut = flagIn
           ELSE /\ Len(flagOut) = IF FirstFalse(flagIn) <= Len(flagIn)
                                  THEN Len(flagIn) ELSE Len(flagIn) + 1
                /\ flagOut[Len(flagOut)] = VerboseTrue
                /\ \A j \in 1..(Len(flagOut) - 1) :
                      flagOut[j] = IF j < FirstFalse(flagIn)
                                   THEN flagIn[j] ELSE flagIn[j + 1]

\* Two -test.v=false with other arguments between and behind them: the
\* first is dropped, the second stays between the two others, and
\* -test.v=true is appended.
C20_Witness ==
    /\ flagIn = <<VerboseFalse, "-x", VerboseFalse, "-x">>
    /\ flagOut = <<"-x", VerboseFalse, "-x", VerboseTrue>>

\* -------------------------------------------- the matcher's bookkeeping
\* assertSameArray has been called on its own and has returned.
Matched == pc = "returned" /\ calls = 0

\* The got indices and the want indices of the cancelled pairs.
MatchedGot == {matched[p][1] : p \in DOMAIN matched}
MatchedWant == {matched[p][2] : p \in DOMAIN matched}

\* C21: after the matcher finishes, with matchedCount the number of
\* cancelled pairs, matchedCount + len(extra) = len(got) and matchedCount +
\* len(missing) = len(want); every got index and every want index is in at
\* most one pair, and the two elements of a pair are deeply equal.  The
\* indices marked -1 are those of the pairs.
C21_Bookkeeping ==
    Matched =>
        LET matchedCount == Len(matched)
        IN /\ matchedCount + Len(extra) = Len(got.vals)
           /\ matchedCount + Len(missing) = Len(want.vals)
           /\ \A p, q \in DOMAIN matched :
                 p # q => /\ matched[p][1] # matched[q][1]
                          /\ matched[p][2] # matched[q][2]
           /\ \A p \in DOMAIN matched :
                 /\ matched[p][1] \in DOMAIN got.vals
                 /\ matched[p][2] \in DOMAIN want.vals
                 /\ DeepEqual(got.vals[matched[p][1]], want.vals[matched[p][2]])
           /\ \A i \in DOMAIN got.vals :
                 unusedGotIndicies[i] = (IF i \in MatchedGot THEN -1 ELSE i)
           /\ \A j \in DOMAIN want.vals :
                 unusedWantIndicies[j] = (IF j \in MatchedWant THEN -1 ELSE j)

\* got [1, 1, 2] against want [1, 3, 1]: two pairs, one extra element and
\* one missing element.
C21_Witness ==
    /\ Matched
    /\ got.vals = <<"1", "1", "2">>
    /\ want.vals = <<"1", "3", "1">>
    /\ matched = << <<1, 1>>, <<2, 3>> >>
    /\ extra = <<"2">>
    /\ missing = <<"3">>

\* C22: the matcher declares equivalence (returns the empty string)
\* exactly when extra and missing are both empty; when they are both empty
\* the two lengths are equal, so a report always carries a missing clause
\* or an extra clause.
C22_Equivalence ==
    Matched =>
        /\ report.text = "" <=> (extra = <<>> /\ missing = <<>>)
        /\ (extra = <<>> /\ missing = <<>>) => Len(got.vals) = Len(want.vals)
        /\ report.text # "" => (report.missingStr # "" \/ report.extraStr # "")

\* got [1, 1] against want [1]: the lengths differ and the report has an
\* extra clause and no missing clause.
C22_Witness ==
    /\ Matched
    /\ got.vals = <<"1", "1">>
    /\ want.vals = <<"1">>
    /\ missing = <<>>
    /\ report.extraStr = "; extra elements: [1]"
    /\ report.missingStr = ""

\* The elements of s at the indices outside used, in index order.
RECURSIVE Unmatched(_, _, _)
Unmatched(s, used, i) ==
    IF i > Len(s) THEN <<>>
    ELSE IF i \in used THEN Unmatched(s, used, i + 1)
    ELSE <<s[i]>> \o Unmatched(s, used, i + 1)

\* The want indices of the pairs cancelled before pair p.
WantUsedBefore(p) == {matched[q][2] : q \in 1..(p - 1)}

\* The want indices of the pairs whose got index is below i.
WantUsedBelow(i) == {matched[q][2] : q \in {r \in DOMAIN matched : matched[r][1] < i}}

\* C23: extra lists the unmatched got elements in got order and missing
\* the unmatched want elements in want order; the got elements are taken
\* in index order and each cancels the lowest-index still-unmatched want
\* element deeply equal to it, if there is one.  The sub-ranges
\* [4,5,6,5,4,3] and [4,3,2,1,1,2] give extra [5,6,5,4] and missing
\* [2,1,1,2].
C23_OriginalOrder ==
    Matched =>
        /\ extra = Unmatched(got.vals, MatchedGot, 1)
        /\ missing = Unmatched(want.vals, MatchedWant, 1)
        /\ \A p, q \in DOMAIN matched : p < q => matched[p][1] < matched[q][1]
        /\ \A p \in DOMAIN matched :
              \A j \in 1..(matched[p][2] - 1) :
                 DeepEqual(got.vals[matched[p][1]], want.vals[j])
                    => j \in WantUsedBefore(p)
        /\ \A i \in DOMAIN got.vals \ MatchedGot :
              \A j \in DOMAIN want.vals :
                 DeepEqual(got.vals[i], want.vals[j]) => j \in WantUsedBelow(i)
        /\ (got.vals = SubRangeGot /\ want.vals = SubRangeWant) =>
              /\ extra = <<"5", "6", "5", "4">>
              /\ missing = <<"2", "1", "1", "2">>

\* The two sub-ranges: the first 4 and the 3 are cancelled, in that order.
C23_Witness ==
    /\ Matched
    /\ got.vals = SubRangeGot
    /\ want.vals = SubRangeWant
    /\ matched = << <<1, 1>>, <<6, 2>> >>
    /\ extra = <<"5", "6", "5", "4">>
    /\ missing = <<"2", "1", "1", "2">>

\* The two sequences hold the same elements the same number of times.
SameElems(s, t) ==
    \A v \in {s[i] : i \in DOMAIN s} \cup {t[i] : i \in DOMAIN t} :
        Count(v, s) = Count(v, t)

Min(a, b) == IF a <= b THEN a ELSE b

\* The sum of f over the finite set S.
RECURSIVE SumOver(_, _)
SumOver(f, S) ==
    IF S = {} THEN 0
    ELSE LET x == CHOOSE y \in S : TRUE IN f[x] + SumOver(f, S \ {x})

\* The size of the largest one-to-one pairing of deeply equal elements of
\* s and t.
LargestPairing(s, t) ==
    LET V == {v \in {s[i] : i \in DOMAIN s} : DeepEqual(v, v)}
    IN SumOver([v \in V |-> Min(Count(v, s), Count(v, t))], V)

\* C24: the outcome does not depend on the order of got or of want: after
\* two elements of one side are exchanged (and so after any permutation of
\* both) the verdict, the number of pairs and the elements of extra and of
\* missing, counted with their multiplicity, are what they were; and the
\* number of pairs is that of the largest one-to-one pairing, so taking
\* the first available partner costs no later element its partner.
C24_OrderIndependent ==
    Matched =>
        /\ Len(matched) = LargestPairing(got.vals, want.vals)
        /\ before.called =>
              /\ before.equivalent <=> report.text = ""
              /\ before.matchedCount = Len(matched)
              /\ SameElems(before.extra, extra)
              /\ SameElems(before.missing, missing)

\* got [1, 2, 2] against want [2, 3, 1], reached by an exchange: the 1
\* cancels the third wanted element and the first 2 the first one.
C24_Witness ==
    /\ Matched
    /\ before.called
    /\ got.vals = <<"1", "2", "2">>
    /\ want.vals = <<"2", "3", "1">>
    /\ matched = << <<1, 3>>, <<2, 1>> >>
    /\ extra = <<"2">>
    /\ before.extra = <<"2">>
    /\ missing = <<"3">>

\* ------------------------------------------------------------ the captor
\* The captor has no inner matcher, or its inner matcher accepts x.
Accepted25(x) ==
    \/ captor.mustMatch = NilMatcher
    \/ IF captor.mustMatch.name = "IsOfType"
       THEN x.dyn = captor.mustMatch.t
       ELSE PredicateMatches(captor.mustMatch, x)

\* The calls of the log that returned true.
TrueCalls == SelectSeq(captorLog, LAMBDA c : c.ret)

\* C25: Matches(x) returns true exactly when the captor has no inner
\* matcher or the inner matcher accepts x, and V is the argument of the
\* most recent call that returned true, nil when none has; so a call that
\* returns true stores its argument and one that returns false leaves V
\* as it was.
C25_Captor ==
    captor # NoCaptor =>
        /\ \A k \in DOMAIN captorLog :
              captorLog[k].ret <=> Accepted25(captorLog[k].x)
        /\ captor.V = IF TrueCalls = <<>> THEN NilValue
                      ELSE TrueCalls[Len(TrueCalls)].x

\* A captor of the string value tester after Matches("matched!") returned
\* true and Matches(1) returned false: V is still "matched!".
C25_Witness ==
    /\ captor.mustMatch = [name |-> "string value tester"]
    /\ captorLog = << [x |-> [dyn |-> "string", s |-> "matched!"], ret |-> TRUE],
                      [x |-> [dyn |-> "int", s |-> "1"], ret |-> FALSE] >>
    /\ captor.V = [dyn |-> "string", s |-> "matched!"]

\* ------------------------------------------------------------ the parser
\* What a line says, once the white space at its end is dropped.
IsRunLine(l) == HasPrefix(TrimRightSpace(l), RunPrefix)
IsResultLine(l) == resultRegex(TrimRightSpace(l)) # <<>>
IsSummaryLine(l) == TrimRightSpace(l) \in {PassWord, FailWord}

\* The test name of a RUN line and of a result line.
RunName(l) == TrimSpace(SubSeq(TrimRightSpace(l), 9, Len(TrimRightSpace(l))))
ResultName(l) == resultRegex(TrimRightSpace(l))[3]

\* The result a result line states.
ResultStated(l) ==
    LET w == resultRegex(TrimRightSpace(l))[2]
    IN IF w = PassWord THEN "Passed" ELSE IF w = SkipWord THEN "Skipped" ELSE "Failed"

\* A test is open when line k is read: a RUN line was read with no test
\* open, and no result line since.
RECURSIVE OpenAt(_)
OpenAt(k) ==
    IF k = 1 THEN FALSE
    ELSE IF OpenAt(k - 1) THEN ~IsResultLine(linesRead[k - 1])
    ELSE IsRunLine(linesRead[k - 1])

\* The places of the summary lines read while no test was open.
SummariesRead == {k \in DOMAIN linesRead : IsSummaryLine(linesRead[k]) /\ ~OpenAt(k)}

ReturnedPkgs == parseRet # NotReturned /\ parseRet.err = "nil"

\* C26: when ParseTestOutput returns without error it returns one package
\* whose Result is Passed or Failed, never Skipped: Passed exactly when
\* the one summary line read while no test was open was PASS, Failed when
\* it was FAIL, and Failed with the 'Did not find package result' notice
\* appended to Output when no summary line was read outside an open test.
C26_PackageResult ==
    ReturnedPkgs =>
        /\ Len(parseRet.pkgs) = 1
        /\ parseRet.pkgs[1].Result \in {"Passed", "Failed"}
        /\ Cardinality(SummariesRead) <= 1
        /\ parseRet.pkgs[1].Result = "Passed" <=>
              \E k \in SummariesRead : TrimRightSpace(linesRead[k]) = PassWord
        /\ (\E k \in SummariesRead : TrimRightSpace(linesRead[k]) = FailWord) =>
              /\ parseRet.pkgs[1].Result = "Failed"
              /\ ~parseRet.pkgs[1].notice
        /\ SummariesRead = {} =>
              /\ parseRet.pkgs[1].Result = "Failed"
              /\ parseRet.pkgs[1].notice
        /\ parseRet.pkgs[1].notice => SummariesRead = {}

\* Test A runs and a PASS line is read while it is open, then its result
\* line: the package is Failed, with the notice.
C26_Witness ==
    /\ ReturnedPkgs
    /\ linesRead = <<RunA, PassWord, PassA, <<>> >>
    /\ parseRet.pkgs[1].Result = "Failed"
    /\ parseRet.pkgs[1].notice
    /\ Len(parseRet.pkgs[1].Tests) = 1

\* C27: as soon as a second summary line is read while no test is open,
\* ParseTestOutput returns nil and the error 'expected only a single
\* package'; it reads nothing after that line.
C27_SinglePackage ==
    /\ Cardinality(SummariesRead) >= 2 =>
          /\ parseRet = ReturnErr(SinglePackageErr)
          /\ Cardinality(SummariesRead) = 2
          /\ Len(linesRead) \in SummariesRead
    /\ (parseRet # NotReturned /\ parseRet.err # "nil") =>
          /\ parseRet.pkgs = <<>>
          /\ parseRet.err = SinglePackageErr

\* PASS, then test A, then FAIL: the error is returned at the FAIL line.
C27_Witness ==
    /\ linesRead = <<PassWord, RunA, PassA, FailWord>>
    /\ parseRet = ReturnErr(SinglePackageErr)
    /\ ~eof

\* C28 as stated: when ParseTestOutput returns without error, every RUN
\* line that is followed later by a result line bearing its test's name
\* has an entry of that name in Tests, and every entry of Tests carries a
\* result that a result line bearing the entry's own name states.
C28_TestsByName ==
    ReturnedPkgs =>
        LET tests == parseRet.pkgs[1].Tests
        IN /\ \A i, j \in DOMAIN linesRead :
                 (/\ i < j
                  /\ IsRunLine(linesRead[i])
                  /\ IsResultLine(linesRead[j])
                  /\ ResultName(linesRead[j]) = RunName(linesRead[i]))
                 => \E e \in DOMAIN tests : tests[e].Name = RunName(linesRead[i])
           /\ \A e \in DOMAIN tests :
                 \E j \in DOMAIN linesRead :
                    /\ IsResultLine(linesRead[j])
                    /\ ResultName(linesRead[j]) = tests[e].Name
                    /\ ResultStated(linesRead[j]) = tests[e].Result

\* ------------------------------------------------- the verbose flag again
\* C29 as stated: the list ForceVerboseFlag returns holds -test.v=true
\* exactly once and holds no -test.v=false, whatever the input.
C29_ExactlyOnce ==
    flagOut # <<>> =>
        /\ Count(VerboseTrue, flagOut) = 1
        /\ Count(VerboseFalse, flagOut) = 0

\* C30 as stated: after the call the slice that was passed in holds the
\* elements it held before the call, in the same places.
C30_ArgsUnchanged ==
    flagOut # <<>> => flagArgs = flagIn

====
